---- MODULE Spec2Model ----
(***************************************************************************)
(* Mavis: keystrokes -> Sheet Text tokens -> phoneme events -> rate-tracked *)
(* output buffer, stepped by MavisPipeline.tick().                          *)
(*                                                                         *)
(* Representation.  A Python str is a sequence of one-character strings.   *)
(* An Optional value is a sequence of length 0 (None) or 1.  Floats that   *)
(* the code only multiplies by table entries are kept as scaled integers:  *)
(* volume and breathiness in tenths, pitch in tenths of a Hz, the duration *)
(* modifier in tenths.  A ratio (level, rate) is a pair <<num, den>>.      *)
(***************************************************************************)
EXTENDS Integers, Sequences, FiniteSets, TLC

VARIABLES
    pipe,      \* the MavisPipeline object under test
    twin,      \* a second MavisPipeline built from the same configuration
    ibuf,      \* a stand-alone InputBuffer
    obuf,      \* a stand-alone OutputBuffer
    mono,      \* time.monotonic(), in whole seconds
    chars,     \* argument of parse()
    tokens,    \* argument of MockLLMProcessor.process() / result of parse()
    events,    \* result of MockLLMProcessor.process()
    driver,    \* the loop of test_full_flow: the text fed and the ticks done
    hist,      \* history: what the environment has handed to the object so far
    call       \* the last operation performed, with its arguments and result

vars == <<pipe, twin, ibuf, obuf, mono, chars, tokens, events, driver, hist, call>>

(***************************************************************************)
(* Bounds of the model.                                                    *)
(***************************************************************************)
MaxInCap == 3      \* stand-alone InputBuffer capacities 1..MaxInCap
MaxInPush == 4     \* pushes into the stand-alone InputBuffer
MaxOutCap == 5     \* stand-alone OutputBuffer capacities 1..MaxOutCap
MaxPush == 3       \* longest event list handed to one OutputBuffer.push
MaxLog == 4        \* pushes/pops are offered while a timestamp list is shorter
MaxMono == 1       \* time.monotonic() readings 0..MaxMono, in seconds
MaxFeeds == 3      \* feed()/feed_text() calls in one pipeline run
MaxGroups == 4     \* whitespace-delimited groups in one parse() argument
MaxTokens == 2     \* tokens in one process() argument
MaxStamp == 1      \* wall-clock readings 0..MaxStamp of the twin pipelines
MaxChunk == 5      \* keystrokes in a chunk of the grouping runs
MaxScoreCalls == 4 \* on_tick, on_token and reset calls on one ScoreTracker
MaxApiCalls == 4   \* check_rate_limit calls of a rate-limit run
MaxApiAdvances == 3 \* wall-clock advances of a rate-limit run
MaxSubmits == 4    \* submit calls on one Leaderboard
MaxCtorCap == 2    \* constructors are called with capacities -1..MaxCtorCap
MaxClock == 3      \* monotonic clock readings 0..MaxClock of the rate runs

(***************************************************************************)
(* Program constants.                                                      *)
(***************************************************************************)
DefaultInputCapacity == 256
DefaultOutputCapacity == 128
\* Faulty variant of the chunk size: a tick drains the whole input buffer.
ChunkSizeWhole == DefaultInputCapacity
ChunkSize == 8
RateWindow == 2
BasePitchHz == 220
BaseDurationMs == 100
FullFlowTicks == 50

Min(a, b) == IF a < b THEN a ELSE b
Max(a, b) == IF a > b THEN a ELSE b

None == <<>>
Some(x) == <<x>>

(***************************************************************************)
(* str helpers: isalpha, isupper, lower, startswith, endswith, slicing.    *)
(***************************************************************************)
LowerLetters ==
    <<"a","b","c","d","e","f","g","h","i","j","k","l","m",
      "n","o","p","q","r","s","t","u","v","w","x","y","z">>
UpperLetters ==
    <<"A","B","C","D","E","F","G","H","I","J","K","L","M",
      "N","O","P","Q","R","S","T","U","V","W","X","Y","Z">>

Range(s) == {s[i] : i \in DOMAIN s}

isupper(c) == c \in Range(UpperLetters)
isalpha(c) == c \in Range(LowerLetters) \cup Range(UpperLetters)

lower(c) ==
    IF isupper(c)
    THEN LowerLetters[CHOOSE i \in DOMAIN UpperLetters : UpperLetters[i] = c]
    ELSE c

str_lower(s) == [i \in DOMAIN s |-> lower(s[i])]

startswith(s, p) == Len(s) >= Len(p) /\ SubSeq(s, 1, Len(p)) = p
endswith(s, p) == Len(s) >= Len(p) /\ SubSeq(s, Len(s) - Len(p) + 1, Len(s)) = p

\* Faulty variant of the slice: the right end is not cut.
Strip_left(s, a, b) == SubSeq(s, a + 1, Len(s))

\* text[a:-b]
Strip(s, a, b) == SubSeq(s, a + 1, Len(s) - b)

\* text_to_chars(): shift is inferred from upper case
text_to_chars(text) ==
    [i \in DOMAIN text |->
        [char |-> text[i], shift |-> isupper(text[i]), ctrl |-> FALSE,
         alt |-> FALSE, timestamp_ms |-> 0]]

(***************************************************************************)
(* mavis/sheet_text.py                                                     *)
(***************************************************************************)
SheetTextToken(text, emphasis, sustain, harmony, duration_modifier) ==
    [text |-> text, emphasis |-> emphasis, sustain |-> sustain,
     harmony |-> harmony, duration_modifier |-> duration_modifier]

\* Faulty variant of the first pass: a comma separates groups as a space does.
RECURSIVE GroupLoop_punct(_, _, _, _)
GroupLoop_punct(cs, i, current, groups) ==
    IF i > Len(cs)
    THEN IF current # <<>> THEN Append(groups, current) ELSE groups
    ELSE IF cs[i].char \in {" ", ","}
         THEN IF current # <<>>
              THEN GroupLoop_punct(cs, i + 1, <<>>, Append(groups, current))
              ELSE GroupLoop_punct(cs, i + 1, current, groups)
         ELSE GroupLoop_punct(cs, i + 1, Append(current, cs[i]), groups)

\* First pass of parse(): the runs of non-space keystrokes, in order.
RECURSIVE GroupLoop(_, _, _, _)
GroupLoop(cs, i, current, groups) ==
    IF i > Len(cs)
    THEN IF current # <<>> THEN Append(groups, current) ELSE groups
    ELSE IF cs[i].char = " "
         THEN IF current # <<>>
              THEN GroupLoop(cs, i + 1, <<>>, Append(groups, current))
              ELSE GroupLoop(cs, i + 1, current, groups)
         ELSE GroupLoop(cs, i + 1, Append(current, cs[i]), groups)

parse_groups(cs) == GroupLoop(cs, 1, <<>>, <<>>)

GroupText(group) == [i \in DOMAIN group |-> group[i].char]

\* Faulty variant of the ellipsis test: two dots are taken for an ellipsis.
Ellipsis_two == <<".", ".">>

Ellipsis == <<".", ".", ".">>

\* Soft detection: _text_ with something between the underscores.
IsSoft(text) ==
    startswith(text, <<"_">>) /\ endswith(text, <<"_">>) /\ Len(text) > 2

\* Faulty variant of the loud detection: the shift flag of every keystroke counts.
LoudEmphasis_anyshift(text, group) ==
    LET alpha_chars == SelectSeq(text, isalpha)
        all_upper == \A i \in DOMAIN alpha_chars : isupper(alpha_chars[i])
        any_shift == \E i \in DOMAIN group : group[i].shift
    IN  IF alpha_chars = <<>> THEN "none"
        ELSE IF all_upper /\ (any_shift \/ Len(alpha_chars) >= 1) THEN "loud"
        ELSE IF any_shift /\ (\E i \in DOMAIN alpha_chars : isupper(alpha_chars[i]))
             THEN "loud"
        ELSE "none"

\* Faulty variant of the loud detection: the test for letters is missing.
LoudEmphasis_noalpha(text, group) ==
    LET alpha_chars == SelectSeq(text, isalpha)
        all_upper == \A i \in DOMAIN alpha_chars : isupper(alpha_chars[i])
        any_shift == \E i \in DOMAIN group :
                        isalpha(group[i].char) /\ group[i].shift
    IN  IF all_upper /\ (any_shift \/ Len(alpha_chars) >= 0) THEN "loud"
        ELSE IF any_shift /\ (\E i \in DOMAIN alpha_chars : isupper(alpha_chars[i]))
             THEN "loud"
        ELSE "none"

\* Loud detection on a group that is not soft; text is what is left after
\* the sustain and bracket stripping, group still holds every keystroke.
LoudEmphasis(text, group) ==
    LET alpha_chars == SelectSeq(text, isalpha)
        all_upper == \A i \in DOMAIN alpha_chars : isupper(alpha_chars[i])
        any_shift == \E i \in DOMAIN group :
                        isalpha(group[i].char) /\ group[i].shift
    IN  IF alpha_chars = <<>> THEN "none"
        ELSE IF all_upper /\ (any_shift \/ Len(alpha_chars) >= 1) THEN "loud"
        ELSE IF any_shift /\ (\E i \in DOMAIN alpha_chars : isupper(alpha_chars[i]))
             THEN "loud"
        ELSE "none"

\* Faulty variant of the loop body: the underscores are stripped before the
\* brackets.
parse_group_softfirst(group) ==
    LET text0 == GroupText(group)
        sustain == endswith(text0, Ellipsis)
        duration_modifier == IF sustain THEN 20 ELSE 10
        text1 == IF sustain THEN Strip(text0, 0, 3) ELSE text0
    IN  IF sustain /\ text1 = <<>>
        THEN SheetTextToken(Ellipsis, "none", TRUE, FALSE, 20)
        ELSE
        LET soft == IsSoft(text1)
            text2 == IF soft THEN Strip(text1, 1, 1) ELSE text1
            bracketed == startswith(text2, <<"[">>) /\ endswith(text2, <<"]">>)
            harmony == bracketed \/ (\E i \in DOMAIN group : group[i].ctrl)
            text3 == IF bracketed THEN Strip(text2, 1, 1) ELSE text2
            emphasis == IF soft THEN "soft" ELSE LoudEmphasis(text3, group)
        IN  SheetTextToken(text3, emphasis, sustain, harmony, duration_modifier)

\* Faulty variant of the loop body: loud is tested before soft.
parse_group_loudfirst(group) ==
    LET text0 == GroupText(group)
        sustain == endswith(text0, Ellipsis)
        duration_modifier == IF sustain THEN 20 ELSE 10
        text1 == IF sustain THEN Strip(text0, 0, 3) ELSE text0
    IN  IF sustain /\ text1 = <<>>
        THEN SheetTextToken(Ellipsis, "none", TRUE, FALSE, 20)
        ELSE
        LET bracketed == startswith(text1, <<"[">>) /\ endswith(text1, <<"]">>)
            harmony == bracketed \/ (\E i \in DOMAIN group : group[i].ctrl)
            text2 == IF bracketed THEN Strip(text1, 1, 1) ELSE text1
            loud == LoudEmphasis(text2, group) = "loud"
            soft == ~loud /\ IsSoft(text2)
            emphasis == IF loud THEN "loud" ELSE IF soft THEN "soft" ELSE "none"
            text3 == IF soft THEN Strip(text2, 1, 1) ELSE text2
        IN  SheetTextToken(text3, emphasis, sustain, harmony, duration_modifier)

\* Faulty variant of the loop body: the ctrl flag is not looked at.
parse_group_noctrl(group) ==
    LET text0 == GroupText(group)
        sustain == endswith(text0, Ellipsis)
        duration_modifier == IF sustain THEN 20 ELSE 10
        text1 == IF sustain THEN Strip(text0, 0, 3) ELSE text0
    IN  IF sustain /\ text1 = <<>>
        THEN SheetTextToken(Ellipsis, "none", TRUE, FALSE, 20)
        ELSE
        LET bracketed == startswith(text1, <<"[">>) /\ endswith(text1, <<"]">>)
            harmony == bracketed
            text2 == IF bracketed THEN Strip(text1, 1, 1) ELSE text1
            soft == IsSoft(text2)
            emphasis == IF soft THEN "soft" ELSE LoudEmphasis(text2, group)
            text3 == IF soft THEN Strip(text2, 1, 1) ELSE text2
        IN  SheetTextToken(text3, emphasis, sustain, harmony, duration_modifier)

\* The body of parse()'s loop over groups, for one group.
parse_group(group) ==
    LET text0 == GroupText(group)
        sustain == endswith(text0, Ellipsis)
        duration_modifier == IF sustain THEN 20 ELSE 10
        text1 == IF sustain THEN Strip(text0, 0, 3) ELSE text0
    IN  IF sustain /\ text1 = <<>>
        THEN SheetTextToken(Ellipsis, "none", TRUE, FALSE, 20)
        ELSE
        LET bracketed == startswith(text1, <<"[">>) /\ endswith(text1, <<"]">>)
            harmony == bracketed \/ (\E i \in DOMAIN group : group[i].ctrl)
            text2 == IF bracketed THEN Strip(text1, 1, 1) ELSE text1
            soft == IsSoft(text2)
            emphasis == IF soft THEN "soft" ELSE LoudEmphasis(text2, group)
            text3 == IF soft THEN Strip(text2, 1, 1) ELSE text2
        IN  SheetTextToken(text3, emphasis, sustain, harmony, duration_modifier)

\* The token list parse() has built when it reaches the post-pass.
parse_tokens(cs) ==
    CHOOSE r \in {[g \in DOMAIN groups |-> parse_group(groups[g])] :
                     groups \in {parse_groups(cs)}} : TRUE

\* _promote_shout(): i scans the list; a run of 'loud' tokens starting at
\* run_start and ending before i is rewritten when it has two or more.
RECURSIVE RunEnd(_, _)
RunEnd(toks, i) ==
    IF i <= Len(toks) /\ toks[i].emphasis = "loud" THEN RunEnd(toks, i + 1) ELSE i

RECURSIVE PromoteLoop(_, _)
PromoteLoop(toks, i) ==
    IF i > Len(toks) THEN toks
    ELSE IF toks[i].emphasis = "loud"
         THEN LET run_start == i
                  j == RunEnd(toks, i)
              IN  IF j - run_start >= 2
                  THEN PromoteLoop(
                         [k \in DOMAIN toks |->
                            IF k >= run_start /\ k < j
                            THEN [toks[k] EXCEPT !.emphasis = "shout"]
                            ELSE toks[k]], j)
                  ELSE PromoteLoop(toks, j)
         ELSE PromoteLoop(toks, i + 1)

\* Faulty variant of _promote_shout: a run needs three tokens to be promoted.
RECURSIVE PromoteLoopMin3(_, _)
PromoteLoopMin3(toks, i) ==
    IF i > Len(toks) THEN toks
    ELSE IF toks[i].emphasis = "loud"
         THEN LET j == RunEnd(toks, i)
              IN  IF j - i > 2
                  THEN PromoteLoopMin3(
                         [k \in DOMAIN toks |->
                            IF k >= i /\ k < j
                            THEN [toks[k] EXCEPT !.emphasis = "shout"]
                            ELSE toks[k]], j)
                  ELSE PromoteLoopMin3(toks, j)
         ELSE PromoteLoopMin3(toks, i + 1)

promote_shout_min3(toks) == PromoteLoopMin3(toks, 1)

promote_shout(toks) == PromoteLoop(toks, 1)

parse(cs) ==
    IF cs = <<>> THEN <<>>
    ELSE CHOOSE r \in {promote_shout(toks) : toks \in {parse_tokens(cs)}} : TRUE

(***************************************************************************)
(* mavis/llm_processor.py                                                  *)
(***************************************************************************)
WORD_PHONEMES ==
    {
       <<<<"t", "h", "e">>, <<"dh", "ax">>>>,
       <<<<"a">>, <<"ax">>>>,
       <<<<"a", "n">>, <<"ae", "n">>>>,
       <<<<"a", "n", "d">>, <<"ae", "n", "d">>>>,
       <<<<"i", "s">>, <<"ih", "z">>>>,
       <<<<"a", "r", "e">>, <<"aa", "r">>>>,
       <<<<"w", "a", "s">>, <<"w", "aa", "z">>>>,
       <<<<"i">>, <<"ay">>>>,
       <<<<"y", "o", "u">>, <<"y", "uw">>>>,
       <<<<"i", "t">>, <<"ih", "t">>>>,
       <<<<"i", "n">>, <<"ih", "n">>>>,
       <<<<"t", "o">>, <<"t", "uw">>>>,
       <<<<"o", "f">>, <<"ah", "v">>>>,
       <<<<"f", "o", "r">>, <<"f", "ao", "r">>>>,
       <<<<"o", "n">>, <<"aa", "n">>>>,
       <<<<"w", "i", "t", "h">>, <<"w", "ih", "th">>>>,
       <<<<"t", "h", "i", "s">>, <<"dh", "ih", "s">>>>,
       <<<<"t", "h", "a", "t">>, <<"dh", "ae", "t">>>>,
       <<<<"n", "o", "t">>, <<"n", "aa", "t">>>>,
       <<<<"b", "u", "t">>, <<"b", "ah", "t">>>>,
       <<<<"m", "y">>, <<"m", "ay">>>>,
       <<<<"a", "l", "l">>, <<"ao", "l">>>>,
       <<<<"s", "o">>, <<"s", "ow">>>>,
       <<<<"u", "p">>, <<"ah", "p">>>>,
       <<<<"s", "u", "n">>, <<"s", "ah", "n">>>>,
       <<<<"r", "i", "s", "i", "n", "g">>, <<"r", "ay", "z", "ih", "ng">>>>,
       <<<<"r", "i", "s", "e", "s">>, <<"r", "ay", "z", "ih", "z">>>>,
       <<<<"f", "a", "l", "l", "i", "n", "g">>, <<"f", "ao", "l", "ih", "ng">>>>,
       <<<<"d", "o", "w", "n">>, <<"d", "aw", "n">>>>,
       <<<<"h", "o", "l", "d">>, <<"hh", "ow", "l", "d">>>>,
       <<<<"n", "o", "t", "e">>, <<"n", "ow", "t">>>>,
       <<<<"s", "i", "n", "g", "i", "n", "g">>, <<"s", "ih", "ng", "ih", "ng">>>>,
       <<<<"t", "o", "g", "e", "t", "h", "e", "r">>, <<"t", "ax", "g", "eh", "dh", "er">>>>,
       <<<<"a", "g", "a", "i", "n">>, <<"ax", "g", "eh", "n">>>>,
       <<<<"h", "e", "l", "l", "o">>, <<"hh", "ax", "l", "ow">>>>,
       <<<<"w", "o", "r", "l", "d">>, <<"w", "er", "l", "d">>>>,
       <<<<"g", "e", "n", "t", "l", "y">>, <<"jh", "eh", "n", "t", "l", "iy">>>>,
       <<<<"s", "a", "i", "d">>, <<"s", "eh", "d">>>>,
       <<<<"s", "t", "o", "p">>, <<"s", "t", "aa", "p">>>>,
       <<<<"t", "w", "i", "n", "k", "l", "e">>, <<"t", "w", "ih", "ng", "k", "ax", "l">>>>,
       <<<<"l", "i", "t", "t", "l", "e">>, <<"l", "ih", "t", "ax", "l">>>>,
       <<<<"s", "t", "a", "r">>, <<"s", "t", "aa", "r">>>>,
       <<<<"h", "o", "w">>, <<"hh", "aw">>>>,
       <<<<"w", "o", "n", "d", "e", "r">>, <<"w", "ah", "n", "d", "er">>>>,
       <<<<"w", "h", "a", "t">>, <<"w", "ah", "t">>>>,
       <<<<"a", "b", "o", "v", "e">>, <<"ax", "b", "ah", "v">>>>,
       <<<<"l", "i", "k", "e">>, <<"l", "ay", "k">>>>,
       <<<<"d", "i", "a", "m", "o", "n", "d">>, <<"d", "ay", "ax", "m", "ax", "n", "d">>>>,
       <<<<"s", "k", "y">>, <<"s", "k", "ay">>>>
    }

\* Faulty variant of _word_to_phonemes: the lexicon is asked for the word
\* as typed, without lower-casing it.
word_to_phonemes_cased(word) ==
    IF \E e \in WORD_PHONEMES : e[1] = word
    THEN (CHOOSE e \in WORD_PHONEMES : e[1] = word)[2]
    ELSE str_lower(SelectSeq(word, isalpha))

word_to_phonemes(word) ==
    LET key == str_lower(word)
    IN  IF \E e \in WORD_PHONEMES : e[1] = key
        THEN (CHOOSE e \in WORD_PHONEMES : e[1] = key)[2]
        ELSE str_lower(SelectSeq(word, isalpha))

EMPHASIS_VOLUME(e) ==
    CASE e = "none" -> 5 [] e = "soft" -> 3 [] e = "loud" -> 8
      [] e = "shout" -> 10 [] OTHER -> 5
EMPHASIS_BREATHINESS(e) ==
    CASE e = "soft" -> 6 [] OTHER -> 0
EMPHASIS_PITCH_MULT(e) ==
    CASE e = "none" -> 10 [] e = "soft" -> 9 [] e = "loud" -> 11
      [] e = "shout" -> 12 [] OTHER -> 10

PhonemeEvent(ph, start_ms, token) ==
    [phoneme |-> ph,
     start_ms |-> start_ms,
     duration_ms |-> (BaseDurationMs * token.duration_modifier) \div 10,
     volume |-> EMPHASIS_VOLUME(token.emphasis),
     pitch_hz |-> BasePitchHz * EMPHASIS_PITCH_MULT(token.emphasis),
     vibrato |-> token.sustain,
     breathiness |-> EMPHASIS_BREATHINESS(token.emphasis),
     harmony_intervals |-> IF token.harmony THEN <<4, 7>> ELSE <<>>]

\* Faulty variant of the inner loop of process(): the cursor advances by the base
\* duration, whatever the token's duration modifier.
RECURSIVE PhonemeLoop_basecursor(_, _, _, _, _)
PhonemeLoop_basecursor(phonemes, i, token, evs, cursor_ms) ==
    IF i > Len(phonemes) THEN [events |-> evs, cursor_ms |-> cursor_ms]
    ELSE PhonemeLoop_basecursor(phonemes, i + 1, token,
                                Append(evs, PhonemeEvent(phonemes[i], cursor_ms, token)),
                                cursor_ms + BaseDurationMs)

\* Faulty variant of the inner loop of process(): only the first phoneme of
\* a token carries the token's duration, the others the base duration.
RECURSIVE PhonemeLoop_firstonly(_, _, _, _, _)
PhonemeLoop_firstonly(phonemes, i, token, evs, cursor_ms) ==
    IF i > Len(phonemes) THEN [events |-> evs, cursor_ms |-> cursor_ms]
    ELSE LET ev == IF i = 1 THEN PhonemeEvent(phonemes[i], cursor_ms, token)
                   ELSE [PhonemeEvent(phonemes[i], cursor_ms, token)
                            EXCEPT !.duration_ms = BaseDurationMs]
         IN  PhonemeLoop_firstonly(phonemes, i + 1, token, Append(evs, ev),
                                   cursor_ms + ev.duration_ms)

\* One token's phonemes, appended at cursor_ms.
RECURSIVE PhonemeLoop(_, _, _, _, _)
PhonemeLoop(phonemes, i, token, evs, cursor_ms) ==
    IF i > Len(phonemes) THEN [events |-> evs, cursor_ms |-> cursor_ms]
    ELSE LET ev == PhonemeEvent(phonemes[i], cursor_ms, token)
         IN  PhonemeLoop(phonemes, i + 1, token, Append(evs, ev),
                         cursor_ms + ev.duration_ms)

RECURSIVE ProcessLoop(_, _, _, _)
ProcessLoop(toks, i, evs, cursor_ms) ==
    IF i > Len(toks) THEN evs
    ELSE LET r == PhonemeLoop(word_to_phonemes(toks[i].text), 1, toks[i],
                              evs, cursor_ms)
         IN  ProcessLoop(toks, i + 1, r.events, r.cursor_ms)

process(toks) == ProcessLoop(toks, 1, <<>>, 0)

(***************************************************************************)
(* mavis/input_buffer.py: a deque(maxlen=capacity) of keystroke dicts.     *)
(***************************************************************************)
InputBuffer(capacity) == [capacity |-> capacity, buffer |-> <<>>]

\* An exception that left a call
Raised(exc) == [raised |-> exc]

\* InputBuffer.__init__: deque(maxlen=capacity) raises ValueError for a
\* negative maxlen; nothing else looks at the capacity.
InputBuffer_init(capacity) ==
    IF capacity < 0 THEN Raised("ValueError") ELSE InputBuffer(capacity)

\* modifiers is a dict: a function on a subset of {"shift", "ctrl", "alt"};
\* None and {} both read as the empty dict.
ModGet(mods, k) == IF k \in DOMAIN mods THEN mods[k] ELSE FALSE

Keystroke(char, mods, ts) ==
    [char |-> char, shift |-> ModGet(mods, "shift"), ctrl |-> ModGet(mods, "ctrl"),
     alt |-> ModGet(mods, "alt"), timestamp_ms |-> ts]

\* deque(maxlen=c).append: a full deque drops its leftmost item first.
\* Faulty variant of the bounded deque: a full deque refuses the new item.
DequeAppend_dropnew(buffer, maxlen, item) ==
    IF Len(buffer) >= maxlen THEN buffer ELSE Append(buffer, item)

DequeAppend(buffer, maxlen, item) ==
    IF maxlen = 0 THEN buffer
    ELSE IF Len(buffer) >= maxlen THEN Append(Tail(buffer), item)
    ELSE Append(buffer, item)

\* Faulty variant of InputBuffer.push: a keystroke stamped like the previous one is
\* dropped as a key bounce.
InputBuffer_push_debounce(ib, char, mods, ts) ==
    IF ib.buffer # <<>> /\ ib.buffer[Len(ib.buffer)].timestamp_ms = ts
    THEN ib
    ELSE [ib EXCEPT !.buffer = DequeAppend(ib.buffer, ib.capacity, Keystroke(char, mods, ts))]

InputBuffer_push(ib, char, mods, ts) ==
    [ib EXCEPT !.buffer = DequeAppend(ib.buffer, ib.capacity, Keystroke(char, mods, ts))]

\* Faulty variant of InputBuffer.peek: the slice is one item too long.
InputBuffer_peek_offbyone(ib, n) ==
    IF n >= 0 THEN SubSeq(ib.buffer, 1, Min(n + 1, Len(ib.buffer)))
    ELSE SubSeq(ib.buffer, 1, Len(ib.buffer) + n + 1)

\* items[:n]
InputBuffer_peek(ib, n) ==
    IF n >= 0 THEN SubSeq(ib.buffer, 1, Min(n, Len(ib.buffer)))
    ELSE SubSeq(ib.buffer, 1, Len(ib.buffer) + n)

\* Faulty variant of InputBuffer.consume: pop() in place of popleft().
InputBuffer_consume_newest(ib, n) ==
    LET k == Max(0, Min(n, Len(ib.buffer)))
        s == Len(ib.buffer)
    IN  [ib |-> [ib EXCEPT !.buffer = SubSeq(ib.buffer, 1, s - k)],
         ret |-> [i \in 1..k |-> ib.buffer[s + 1 - i]]]

\* Faulty variant of InputBuffer.consume: the whole buffer is drained.
InputBuffer_consume_all(ib, n) ==
    [ib |-> [ib EXCEPT !.buffer = <<>>], ret |-> ib.buffer]

\* popleft(), min(n, len) times
InputBuffer_consume(ib, n) ==
    LET k == Max(0, Min(n, Len(ib.buffer)))
    IN  [ib |-> [ib EXCEPT !.buffer = SubSeq(ib.buffer, k + 1, Len(ib.buffer))],
         ret |-> SubSeq(ib.buffer, 1, k)]

InputBuffer_level(ib) ==
    IF ib.capacity = 0 THEN <<0, 1>> ELSE <<Len(ib.buffer), ib.capacity>>

InputBuffer_size(ib) == Len(ib.buffer)

InputBuffer_clear(ib) == [ib EXCEPT !.buffer = <<>>]

(***************************************************************************)
(* mavis/output_buffer.py                                                  *)
(***************************************************************************)
OutputBuffer(capacity) ==
    [capacity |-> capacity, buffer |-> <<>>, push_times |-> <<>>, pop_times |-> <<>>]

\* Faulty variant of OutputBuffer.push: the capacity test is off by one.
RECURSIVE PushLoopOffByOne(_, _, _, _)
PushLoopOffByOne(ob, evs, i, now) ==
    IF i > Len(evs) THEN ob
    ELSE IF Len(ob.buffer) <= ob.capacity
         THEN PushLoopOffByOne([ob EXCEPT !.buffer = Append(@, evs[i]),
                                          !.push_times = Append(@, now)], evs, i + 1, now)
         ELSE PushLoopOffByOne(ob, evs, i + 1, now)

OutputBuffer_push_offbyone(ob, evs, now) == PushLoopOffByOne(ob, evs, 1, now)

\* Faulty variant of OutputBuffer.push: the push time is logged for every
\* event offered, enqueued or not.
RECURSIVE PushLoopLogAll(_, _, _, _)
PushLoopLogAll(ob, evs, i, now) ==
    IF i > Len(evs) THEN ob
    ELSE IF Len(ob.buffer) < ob.capacity
         THEN PushLoopLogAll([ob EXCEPT !.buffer = Append(@, evs[i]),
                                        !.push_times = Append(@, now)], evs, i + 1, now)
         ELSE PushLoopLogAll([ob EXCEPT !.push_times = Append(@, now)], evs, i + 1, now)

OutputBuffer_push_logall(ob, evs, now) == PushLoopLogAll(ob, evs, 1, now)

RECURSIVE PushLoop(_, _, _, _)
PushLoop(ob, evs, i, now) ==
    IF i > Len(evs) THEN ob
    ELSE IF Len(ob.buffer) < ob.capacity
         THEN PushLoop([ob EXCEPT !.buffer = Append(@, evs[i]),
                                  !.push_times = Append(@, now)], evs, i + 1, now)
         ELSE PushLoop(ob, evs, i + 1, now)

OutputBuffer_push(ob, evs, now) == PushLoop(ob, evs, 1, now)

\* Faulty variant of OutputBuffer.pop: the pop time is logged before the
\* emptiness test.
OutputBuffer_pop_logfirst(ob, now) ==
    IF ob.buffer = <<>>
    THEN [ob |-> [ob EXCEPT !.pop_times = Append(@, now)], ret |-> None]
    ELSE [ob |-> [ob EXCEPT !.buffer = Tail(@), !.pop_times = Append(@, now)],
          ret |-> Some(Head(ob.buffer))]

\* Faulty variant of OutputBuffer.pop: the newest event is taken (pop()
\* in place of popleft()).
OutputBuffer_pop_newest(ob, now) ==
    IF ob.buffer = <<>> THEN [ob |-> ob, ret |-> None]
    ELSE [ob |-> [ob EXCEPT !.buffer = SubSeq(@, 1, Len(@) - 1),
                            !.pop_times = Append(@, now)],
          ret |-> Some(ob.buffer[Len(ob.buffer)])]

\* Faulty variant of OutputBuffer.pop: a pop takes two events off the queue.
OutputBuffer_pop_two(ob, now) ==
    IF ob.buffer = <<>> THEN [ob |-> ob, ret |-> None]
    ELSE [ob |-> [ob EXCEPT !.buffer = IF Len(@) >= 2 THEN Tail(Tail(@)) ELSE <<>>,
                            !.pop_times = Append(@, now)],
          ret |-> Some(Head(ob.buffer))]

OutputBuffer_pop(ob, now) ==
    IF ob.buffer = <<>> THEN [ob |-> ob, ret |-> None]
    ELSE [ob |-> [ob EXCEPT !.buffer = Tail(@), !.pop_times = Append(@, now)],
          ret |-> Some(Head(ob.buffer))]

\* Faulty variant of the pruning loop: nothing is pruned.
Prune_none(timestamps, cutoff) == timestamps

\* Faulty variant of the pruning loop: a timestamp exactly one window old
\* is pruned as well.
RECURSIVE Prune_inclusive(_, _)
Prune_inclusive(timestamps, cutoff) ==
    IF timestamps # <<>> /\ timestamps[1] <= cutoff
    THEN Prune_inclusive(Tail(timestamps), cutoff)
    ELSE timestamps

\* _calc_rate(): prunes the list it is given, then count / span.
RECURSIVE Prune(_, _)
Prune(timestamps, cutoff) ==
    IF timestamps # <<>> /\ timestamps[1] < cutoff
    THEN Prune(Tail(timestamps), cutoff)
    ELSE timestamps

\* Faulty variant of _calc_rate: the count is divided by the window width.
calc_rate_window(timestamps, now) ==
    LET kept == Prune(timestamps, now - RateWindow)
    IN  [timestamps |-> kept,
         rate |-> IF kept = <<>> THEN <<0, 1>> ELSE <<Len(kept), RateWindow>>]

\* Faulty variant of _calc_rate: a single surviving timestamp reports the count.
calc_rate_single(timestamps, now) ==
    LET kept == Prune(timestamps, now - RateWindow)
        elapsed == now - kept[1]
    IN  [timestamps |-> kept,
         rate |-> IF kept = <<>> THEN <<0, 1>>
                  ELSE IF elapsed <= 0 \/ Len(kept) = 1 THEN <<Len(kept), 1>>
                  ELSE <<Len(kept), elapsed>>]

calc_rate(timestamps, now) ==
    LET kept == Prune(timestamps, now - RateWindow)
        elapsed == now - kept[1]
    IN  [timestamps |-> kept,
         rate |-> IF kept = <<>> THEN <<0, 1>>
                  ELSE IF elapsed <= 0 THEN <<Len(kept), 1>>
                  ELSE <<Len(kept), elapsed>>]

\* level < 0.2 and level > 0.8 on level = size / capacity.  The float
\* quotient is the correctly rounded size/capacity and 0.2, 0.8 are the
\* correctly rounded literals, so the comparisons are those of the exact
\* ratios: 5 * size < capacity and 5 * size > 4 * capacity.
\* Faulty variant of the zone test: the boundaries belong to the outer zones.
BufferStatus_closed(level) ==
    IF 5 * level[1] <= level[2] THEN "underflow"
    ELSE IF 5 * level[1] >= 4 * level[2] THEN "overflow"
    ELSE "optimal"

BufferStatus(level) ==
    IF 5 * level[1] < level[2] THEN "underflow"
    ELSE IF 5 * level[1] > 4 * level[2] THEN "overflow"
    ELSE "optimal"

OutputBuffer_level(ob) ==
    IF ob.capacity > 0 THEN <<Len(ob.buffer), ob.capacity>> ELSE <<0, 1>>

OutputBuffer_state(ob, now) ==
    LET level == OutputBuffer_level(ob)
        fill == calc_rate(ob.push_times, now)
        drain == calc_rate(ob.pop_times, now)
    IN  [ob |-> [ob EXCEPT !.push_times = fill.timestamps,
                           !.pop_times = drain.timestamps],
         ret |-> [level |-> level, status |-> BufferStatus(level),
                  drain_rate |-> drain.rate, fill_rate |-> fill.rate]]

OutputBuffer_size(ob) == Len(ob.buffer)

\* Faulty variant of OutputBuffer.clear: the timestamp lists are emptied too.
OutputBuffer_clear_times(ob) ==
    [ob EXCEPT !.buffer = <<>>, !.push_times = <<>>, !.pop_times = <<>>]

OutputBuffer_clear(ob) == [ob EXCEPT !.buffer = <<>>]

(***************************************************************************)
(* mavis/audio.py, mavis/export.py: the collaborators tick() calls.        *)
(***************************************************************************)
SampleRate == 22050

\* MockAudioSynthesizer.synthesize(): the PCM buffer, kept as its length
\* in samples; play() does nothing.
synthesize(ev) == (SampleRate * ev.duration_ms) \div 1000

\* PerformanceRecording: the event log (kept as the event types), the
\* tokens and the phoneme events.
PerformanceRecording == [events |-> <<>>, tokens |-> <<>>, phoneme_events |-> <<>>]

\* Each record_* below is the guarded call of the pipeline,
\* "if self.recording is not None: self.recording.record_*(...)",
\* on the Optional recording.
record_keystroke(recording) ==
    IF recording = None THEN None
    ELSE Some([recording[1] EXCEPT !.events = Append(@, "keystroke")])

RECURSIVE record_tokens(_, _, _)
record_tokens(recording, toks, i) ==
    IF recording = None \/ i > Len(toks) THEN recording
    ELSE record_tokens(
           Some([recording[1] EXCEPT !.tokens = Append(@, toks[i]),
                                     !.events = Append(@, "token")]), toks, i + 1)

record_phoneme(recording, ev) ==
    IF recording = None THEN None
    ELSE Some([recording[1] EXCEPT !.phoneme_events = Append(@, ev),
                                   !.events = Append(@, "phoneme")])

record_buffer_state(recording) ==
    IF recording = None THEN None
    ELSE Some([recording[1] EXCEPT !.events = Append(@, "buffer_state")])

(***************************************************************************)
(* mavis/pipeline.py                                                       *)
(***************************************************************************)
MavisPipeline(input_buffer_capacity, output_buffer_capacity) ==
    [input_buffer |-> InputBuffer(input_buffer_capacity),
     output_buffer |-> OutputBuffer(output_buffer_capacity),
     last_tokens |-> <<>>,
     last_phoneme |-> None,
     last_audio |-> None,
     recording |-> None]

\* MavisPipeline.__init__ builds the input buffer first, then the output
\* buffer; an exception of either constructor leaves it.
MavisPipeline_init(input_buffer_capacity, output_buffer_capacity) ==
    IF "raised" \in DOMAIN InputBuffer_init(input_buffer_capacity)
    THEN InputBuffer_init(input_buffer_capacity)
    ELSE MavisPipeline(input_buffer_capacity, output_buffer_capacity)

start_recording(p) == [p EXCEPT !.recording = Some(PerformanceRecording)]

stop_recording(p) == [p EXCEPT !.recording = None]

feed(p, char, mods, ts) ==
    [p EXCEPT !.input_buffer = InputBuffer_push(@, char, mods, ts),
              !.recording = record_keystroke(@)]

\* feed_text(): one feed per character, shift inferred from upper case.
\* ts[i] is the wall clock read by the i-th push.
RECURSIVE feed_text_loop(_, _, _, _)
feed_text_loop(p, text, ts, i) ==
    IF i > Len(text) THEN p
    ELSE feed_text_loop(
           feed(p, text[i],
                [k \in {"shift", "ctrl", "alt"} |-> k = "shift" /\ isupper(text[i])],
                ts[i]),
           text, ts, i + 1)

feed_text(p, text, ts) == feed_text_loop(p, text, ts, 1)

\* MavisPipeline.state(): OutputBuffer.state() prunes the two timestamp lists.
pipeline_state(p, now) ==
    LET st == OutputBuffer_state(p.output_buffer, now)
    IN  [pipe |-> [p EXCEPT !.output_buffer = st.ob],
         ret |-> [input_buffer_level |-> InputBuffer_level(p.input_buffer),
                  input_buffer_size |-> InputBuffer_size(p.input_buffer),
                  output_buffer_level |-> st.ret.level,
                  output_buffer_status |-> st.ret.status,
                  output_buffer_size |-> OutputBuffer_size(st.ob),
                  output_drain_rate |-> st.ret.drain_rate,
                  output_fill_rate |-> st.ret.fill_rate,
                  last_tokens |-> [i \in DOMAIN p.last_tokens |-> p.last_tokens[i].text],
                  last_phoneme |-> IF p.last_phoneme # None
                                   THEN Some(p.last_phoneme[1].phoneme) ELSE None]]

\* The value of a local variable: Only({e : x \in {v}}) is e with x bound
\* to the value of v, which is computed once.
Only(S) == CHOOSE x \in S : TRUE

\* MavisPipeline.tick().  Every clock read of one tick returns now.  The
\* steps pass on a record t: the pipeline as the step left it and the
\* locals chars, tokens, events of tick().
\* Step 1: consume input
tick_consume(p, now) ==
    Only({ [pipe |-> [q EXCEPT !.input_buffer = consumed.ib],
            now |-> now, chars |-> consumed.ret, tokens |-> <<>>, events |-> <<>>] :
              q \in {p}, consumed \in {InputBuffer_consume(p.input_buffer, ChunkSize)} })

\* Faulty variant of step 2: a loud first token joins the loud token the
\* previous tick ended with, and becomes a shout.
tick_parse_carry(t0) ==
    Only({ IF t.chars # <<>>
           THEN [t EXCEPT !.tokens =
                   Only({ IF /\ toks # <<>> /\ t.pipe.last_tokens # <<>>
                             /\ toks[1].emphasis = "loud"
                             /\ t.pipe.last_tokens[Len(t.pipe.last_tokens)].emphasis
                                   \in {"loud", "shout"}
                          THEN [toks EXCEPT ![1].emphasis = "shout"]
                          ELSE toks :
                             toks \in {parse(t.chars)} })]
           ELSE t :
              t \in {t0} })

\* Step 2: parse
tick_parse(t0) ==
    Only({ IF t.chars # <<>> THEN [t EXCEPT !.tokens = parse(t.chars)] ELSE t :
              t \in {t0} })

\* Faulty variant: _last_tokens is assigned on every tick, so a tick without
\* tokens empties it.
tick_record_tokens_always(t0) ==
    Only({ [t EXCEPT !.pipe.last_tokens = t.tokens,
                     !.pipe.recording = IF t.tokens # <<>>
                                        THEN record_tokens(@, t.tokens, 1) ELSE @] :
              t \in {t0} })

tick_record_tokens(t0) ==
    Only({ IF t.tokens # <<>>
           THEN [t EXCEPT !.pipe.last_tokens = t.tokens,
                          !.pipe.recording = record_tokens(@, t.tokens, 1)]
           ELSE t :
              t \in {t0} })

\* Step 3: LLM processing
tick_process(t0) ==
    Only({ IF t.tokens # <<>> THEN [t EXCEPT !.events = process(t.tokens)] ELSE t :
              t \in {t0} })

\* Step 4: push to output buffer
tick_push(t0) ==
    Only({ IF t.events # <<>>
           THEN [t EXCEPT !.pipe.output_buffer = OutputBuffer_push(@, t.events, t.now)]
           ELSE t :
              t \in {t0} })

\* Faulty variant of step 5: a pop() that returns None leaves the previous
\* _last_phoneme in place.
tick_pop_stale(t0) ==
    Only({ Only({ [t EXCEPT
                     !.pipe.output_buffer = popped.ob,
                     !.pipe.last_phoneme = IF popped.ret # None THEN popped.ret ELSE @,
                     !.pipe.last_audio = IF popped.ret # None
                                         THEN Some(synthesize(popped.ret[1])) ELSE None,
                     !.pipe.recording = IF popped.ret # None
                                        THEN record_phoneme(@, popped.ret[1]) ELSE @] :
                    popped \in {OutputBuffer_pop(t.pipe.output_buffer, t.now)} }) :
              t \in {t0} })

\* Faulty variant of step 5: the head of the queue is played and left queued.
tick_pop_peek(t0) ==
    Only({ Only({ [t EXCEPT
                     !.pipe.last_phoneme = popped.ret,
                     !.pipe.last_audio = IF popped.ret # None
                                         THEN Some(synthesize(popped.ret[1])) ELSE None,
                     !.pipe.recording = IF popped.ret # None
                                        THEN record_phoneme(@, popped.ret[1]) ELSE @] :
                    popped \in {OutputBuffer_pop(t.pipe.output_buffer, t.now)} }) :
              t \in {t0} })

\* Step 5: pop and synthesize
tick_pop(t0) ==
    Only({ Only({ [t EXCEPT
                     !.pipe.output_buffer = popped.ob,
                     !.pipe.last_phoneme = popped.ret,
                     !.pipe.last_audio = IF popped.ret # None
                                         THEN Some(synthesize(popped.ret[1])) ELSE None,
                     !.pipe.recording = IF popped.ret # None
                                        THEN record_phoneme(@, popped.ret[1]) ELSE @] :
                    popped \in {OutputBuffer_pop(t.pipe.output_buffer, t.now)} }) :
              t \in {t0} })

\* Record buffer state
tick_record_state(t0) ==
    Only({ IF t.pipe.recording # None
           THEN [t EXCEPT !.pipe.output_buffer = OutputBuffer_state(@, t.now).ob,
                          !.pipe.recording = record_buffer_state(@)]
           ELSE t :
              t \in {t0} })

\* return self.state().  Besides the new pipeline and the returned state
\* dict, the result names what the tick drained, tokenized, expanded and
\* popped.
tick_return(t0) ==
    Only({ Only({ [pipe |-> st.pipe, ret |-> st.ret,
                   chars |-> t.chars, tokens |-> t.tokens, events |-> t.events,
                   popped |-> t.pipe.last_phoneme] :
                    st \in {pipeline_state(t.pipe, t.now)} }) :
              t \in {t0} })

tick(p, now) ==
    tick_return(tick_record_state(tick_pop(tick_push(tick_process(
        tick_record_tokens(tick_parse(tick_consume(p, now))))))))

create_pipeline == MavisPipeline(DefaultInputCapacity, DefaultOutputCapacity)

(***************************************************************************)
(* States not used by a specification stay at these values.                *)
(***************************************************************************)
Idle == <<>>
NoCall == [op |-> "none"]

(***************************************************************************)
(* SpecOut: one OutputBuffer driven by push, pop, clear and state, with    *)
(* time passing between the calls.                                         *)
(***************************************************************************)
PlainToken(word) == SheetTextToken(word, "none", FALSE, FALSE, 10)

SampleWords ==
    {<<"a">>, <<"i", "s">>, <<"s", "u", "n">>, <<"h", "o", "l", "d">>,
     <<"r", "i", "s", "i", "n", "g">>}

\* The event lists handed to push: nothing, or one sample word's expansion.
PushArgs ==
    {<<>>} \cup {process(<<PlainToken(w)>>) :
                    w \in {x \in SampleWords : Len(word_to_phonemes(x)) <= MaxPush}}

OutUnused == <<pipe, twin, ibuf, chars, tokens, events, driver, hist>>

InitOut ==
    /\ obuf \in {OutputBuffer(c) : c \in 1..MaxOutCap}
    /\ mono = 0
    /\ call = NoCall
    /\ pipe = Idle /\ twin = Idle /\ ibuf = Idle
    /\ chars = Idle /\ tokens = Idle /\ events = Idle /\ driver = Idle
    /\ hist = Idle

OBPush(evs) ==
    /\ Len(obuf.push_times) < MaxLog
    /\ obuf' = OutputBuffer_push(obuf, evs, mono)
    /\ call' = [op |-> "push", events |-> evs]
    /\ UNCHANGED <<mono, OutUnused>>

OBPop ==
    /\ Len(obuf.pop_times) < MaxLog
    /\ LET r == OutputBuffer_pop(obuf, mono)
       IN  /\ obuf' = r.ob
           /\ call' = [op |-> "pop", ret |-> r.ret]
    /\ UNCHANGED <<mono, OutUnused>>

\* clear(), with the buffer it was called on
OBClear ==
    /\ obuf' = OutputBuffer_clear(obuf)
    /\ call' = [op |-> "clear", before |-> obuf]
    /\ UNCHANGED <<mono, OutUnused>>

OBState ==
    /\ LET r == OutputBuffer_state(obuf, mono)
       IN  /\ obuf' = r.ob
           /\ call' = [op |-> "state", ret |-> r.ret]
    /\ UNCHANGED <<mono, OutUnused>>

\* time.monotonic() moves on between two calls.
Advance ==
    /\ mono < MaxMono
    /\ mono' = mono + 1
    /\ call' = [op |-> "advance"]
    /\ UNCHANGED <<obuf, OutUnused>>

NextOut ==
    \/ \E evs \in PushArgs : OBPush(evs)
    \/ OBPop
    \/ OBClear
    \/ OBState
    \/ Advance

SpecOut == InitOut /\ [][NextOut]_vars

\* C1: OutputBuffer.push(events) on a buffer of capacity c holding s events
\* appends exactly the first min(k, c - s) of the k events, in order, and
\* drops the rest; under push, pop, clear and state the size never exceeds c.
C1_OutputSaturation ==
    /\ [](Len(obuf.buffer) <= obuf.capacity)
    /\ [][call'.op = "push" =>
            LET k == Len(call'.events)
                s == Len(obuf.buffer)
                c == obuf.capacity
            IN  /\ obuf'.buffer = obuf.buffer \o SubSeq(call'.events, 1, Min(k, c - s))
                /\ Len(obuf'.buffer) = Min(c, s + k)]_vars

\* A push of two or more events of which only the first found room.
C1_Witness ==
    /\ call.op = "push"
    /\ Len(call.events) >= 2
    /\ Len(obuf.buffer) = obuf.capacity
    /\ obuf.buffer[Len(obuf.buffer)] = call.events[1]

\* C6: the status state() returns is decided by level = size / capacity
\* alone: 'underflow' below 0.2, 'overflow' above 0.8, 'optimal' between,
\* both boundaries included in 'optimal'.
C6_ZoneOfLevel ==
    call.op = "state" =>
        LET s == Len(obuf.buffer)
            c == obuf.capacity
            status == call.ret.status
        IN  /\ call.ret.level = <<s, c>>
            /\ status \in {"underflow", "optimal", "overflow"}
            /\ (status = "underflow") <=> (10 * s < 2 * c)
            /\ (status = "overflow") <=> (10 * s > 8 * c)
            /\ (status = "optimal") <=> (2 * c <= 10 * s /\ 10 * s <= 8 * c)

\* state() called at level exactly 0.8 (4 of 5) answers 'optimal'.
C6_Witness ==
    /\ call.op = "state"
    /\ obuf.capacity = 5
    /\ Len(obuf.buffer) = 4
    /\ call.ret.status = "optimal"

\* C14: pop() on a non-empty queue returns the oldest event, removes it
\* and nothing else, so the size drops by one; on an empty queue it returns
\* None and leaves the queue, both timestamp logs included, as it was.
C14_PopOldest ==
    [][call'.op = "pop" =>
          IF obuf.buffer # <<>>
          THEN /\ call'.ret = Some(obuf.buffer[1])
               /\ obuf'.buffer = Tail(obuf.buffer)
               /\ Len(obuf'.buffer) = Len(obuf.buffer) - 1
               /\ obuf'.capacity = obuf.capacity
               /\ obuf'.push_times = obuf.push_times
          ELSE /\ call'.ret = None
               /\ obuf' = obuf]_vars

\* A pop that returned an event while two others, the next one different
\* from the returned one, stayed queued.
C14_Witness ==
    /\ call.op = "pop"
    /\ call.ret # None
    /\ Len(obuf.buffer) = 2
    /\ obuf.buffer[1] # call.ret[1]
    /\ obuf.pop_times # <<>>

(***************************************************************************)
(* SpecIn: one InputBuffer driven by push, peek, consume and clear.        *)
(***************************************************************************)
\* push(char, modifiers) arguments: modifiers None, a partial dict, a full dict
InKeys ==
    { <<"a", <<>>>>,
      <<"B", [shift |-> TRUE]>>,
      <<"a", [shift |-> FALSE, ctrl |-> TRUE, alt |-> TRUE]>> }

InUnused == <<pipe, twin, obuf, mono, chars, tokens, events, driver>>

InitIn ==
    /\ ibuf \in {InputBuffer(c) : c \in 1..MaxInCap}
    /\ hist = <<>>
    /\ call = NoCall
    /\ pipe = Idle /\ twin = Idle /\ obuf = Idle /\ mono = 0
    /\ chars = Idle /\ tokens = Idle /\ events = Idle /\ driver = Idle

\* The wall clock read by the n-th push is n milliseconds: every keystroke
\* of a run carries its own timestamp.
IBPush(c, mods) ==
    /\ Len(hist) < MaxInPush
    /\ LET ts == Len(hist)
       IN  /\ ibuf' = InputBuffer_push(ibuf, c, mods, ts)
           /\ hist' = Append(hist, Keystroke(c, mods, ts))
           /\ call' = [op |-> "push", char |-> c, mods |-> mods, ts |-> ts,
                       size_before |-> Len(ibuf.buffer)]
    /\ UNCHANGED InUnused

IBPeek(n) ==
    /\ call' = [op |-> "peek", n |-> n, ret |-> InputBuffer_peek(ibuf, n)]
    /\ UNCHANGED <<ibuf, hist, InUnused>>

IBConsume(n) ==
    /\ LET r == InputBuffer_consume(ibuf, n)
       IN  /\ ibuf' = r.ib
           /\ call' = [op |-> "consume", n |-> n, ret |-> r.ret]
    /\ UNCHANGED <<hist, InUnused>>

IBClear ==
    /\ ibuf' = InputBuffer_clear(ibuf)
    /\ call' = [op |-> "clear"]
    /\ UNCHANGED <<hist, InUnused>>

NextIn ==
    \/ \E k \in InKeys : IBPush(k[1], k[2])
    \/ \E n \in (-2)..(MaxInCap + 1) : IBPeek(n)
    \/ \E n \in (-2)..(MaxInCap + 1) : IBConsume(n)
    \/ IBClear

SpecIn == InitIn /\ [][NextIn]_vars

\* C2: a push into a full InputBuffer (capacity c >= 1) removes the oldest
\* keystroke and appends the new one; under push, peek, consume and clear
\* the size never exceeds c and the buffer is the tail of the keystrokes
\* pushed so far, in arrival order.
C2_InputEviction ==
    /\ [](/\ Len(ibuf.buffer) <= ibuf.capacity
          /\ ibuf.buffer = SubSeq(hist, Len(hist) - Len(ibuf.buffer) + 1, Len(hist)))
    /\ [][(call'.op = "push" /\ Len(ibuf.buffer) = ibuf.capacity) =>
            /\ Len(ibuf'.buffer) = ibuf.capacity
            /\ SubSeq(ibuf'.buffer, 1, ibuf.capacity - 1) = Tail(ibuf.buffer)
            /\ ibuf'.buffer[ibuf.capacity].char = call'.char
            /\ ibuf'.buffer[ibuf.capacity].timestamp_ms = call'.ts]_vars

\* A push that found the buffer full, with an older keystroke surviving.
C2_Witness ==
    /\ call.op = "push"
    /\ ibuf.capacity >= 2
    /\ call.size_before = ibuf.capacity
    /\ Len(ibuf.buffer) = ibuf.capacity
    /\ ibuf.buffer[1].timestamp_ms = call.ts - ibuf.capacity + 1

\* C12: consume(n), n >= 0, on a buffer of s keystrokes returns the
\* min(n, s) oldest ones in arrival order and leaves the other
\* s - min(n, s) in order; every keystroke a push stores carries the pushed
\* character and the pushed shift/ctrl/alt flags, a missing flag read as
\* false, and the stored keystrokes are never altered afterwards.
C12_ConsumeOldest ==
    /\ [][(call'.op = "consume" /\ call'.n >= 0) =>
            LET s == Len(ibuf.buffer)
                m == Min(call'.n, s)
            IN  /\ Len(call'.ret) = m
                /\ \A i \in 1..m : call'.ret[i] = ibuf.buffer[i]
                /\ Len(ibuf'.buffer) = s - m
                /\ \A i \in 1..(s - m) : ibuf'.buffer[i] = ibuf.buffer[m + i]
                /\ call'.ret \o ibuf'.buffer = ibuf.buffer]_vars
    /\ [][call'.op = "push" =>
            LET k == ibuf'.buffer[Len(ibuf'.buffer)]
                flag(f) == f \in DOMAIN call'.mods /\ call'.mods[f]
            IN  /\ k.char = call'.char
                /\ k.shift = flag("shift")
                /\ k.ctrl = flag("ctrl")
                /\ k.alt = flag("alt")]_vars
    /\ [](\A i \in 1..(Len(ibuf.buffer) - 1) :
             ibuf.buffer[i].timestamp_ms < ibuf.buffer[i + 1].timestamp_ms)

\* consume(2) on three keystrokes: the two oldest come back, the first one
\* pushed with modifiers None (all flags false), the second with the
\* partial dict {shift: True}, and the newest stays.
C12_Witness ==
    /\ call.op = "consume"
    /\ call.n = 2
    /\ Len(call.ret) = 2
    /\ call.ret[1] = [char |-> "a", shift |-> FALSE, ctrl |-> FALSE, alt |-> FALSE,
                      timestamp_ms |-> 0]
    /\ call.ret[2].char = "B" /\ call.ret[2].shift /\ ~call.ret[2].ctrl
    /\ Len(ibuf.buffer) = 1
    /\ ibuf.buffer[1].timestamp_ms = 2

\* C13 as stated: peek(n) returns what consume(n) would return in that
\* state and leaves the buffer as it was, for every n.
C13_AsStated ==
    [][call'.op = "peek" =>
          /\ call'.ret = InputBuffer_consume(ibuf, call'.n).ret
          /\ ibuf' = ibuf]_vars

\* C13, amended: peek(n) never changes the buffer; for n >= 0 it returns
\* what consume(n) would return in that state; for n < 0 it returns all but
\* the newest -n keystrokes (the slice items[:n]), where consume(n) returns
\* nothing.
C13_PeekNonDestructive ==
    [][call'.op = "peek" =>
          LET n == call'.n
              s == Len(ibuf.buffer)
              would == InputBuffer_consume(ibuf, n).ret
          IN  /\ ibuf' = ibuf
              /\ n >= 0 => call'.ret = would
              /\ n < 0 => /\ would = <<>>
                          /\ call'.ret = SubSeq(ibuf.buffer, 1, s + n)
                          /\ (s + n >= 1) => call'.ret # would]_vars

\* peek(-1) on three keystrokes returned the two oldest.
C13_Witness ==
    /\ call.op = "peek"
    /\ call.n = -1
    /\ Len(ibuf.buffer) = 3
    /\ Len(call.ret) = 2
    /\ call.ret[1] = ibuf.buffer[1]

(***************************************************************************)
(* SpecParse: parse() applied to a chunk of keystrokes.  The chunk is up   *)
(* to MaxGroups groups from GroupPool, joined by single spaces.            *)
(***************************************************************************)
Key(c, shift, ctrl) ==
    [char |-> c, shift |-> shift, ctrl |-> ctrl, alt |-> FALSE, timestamp_ms |-> 0]

Typed(text) == [i \in DOMAIN text |-> Key(text[i], FALSE, FALSE)]

GroupPool ==
    { Typed(<<"a">>),                                         \* plain
      <<Key("A", TRUE, FALSE)>>,                              \* upper case, shift held
      Typed(<<"A", "B">>),                                    \* upper case, no shift flag
      <<Key("A", TRUE, FALSE), Key("b", FALSE, FALSE)>>,      \* mixed case, shift held
      Typed(<<"_", "A", "_">>),                               \* soft
      <<Key("_", FALSE, FALSE), Key("A", TRUE, FALSE),
        Key("_", FALSE, FALSE)>>,                             \* soft, shift held
      Typed(<<"_", "_">>),                                    \* two underscores
      Typed(<<".", ".", ".">>) }                              \* stand-alone ellipsis

RECURSIVE JoinGroups(_, _)
JoinGroups(gs, i) ==
    IF i > Len(gs) THEN <<>>
    ELSE IF i = Len(gs) THEN gs[i]
    ELSE gs[i] \o <<Key(" ", FALSE, FALSE)>> \o JoinGroups(gs, i + 1)

ParseInputs(max) ==
    UNION {{JoinGroups(gs, 1) : gs \in [1..n -> GroupPool]} : n \in 0..max}

ParseUnused == <<pipe, twin, ibuf, obuf, mono, events, driver, hist>>

InitParse ==
    /\ chars \in ParseInputs(MaxGroups)
    /\ tokens = <<>>
    /\ call = NoCall
    /\ pipe = Idle /\ twin = Idle /\ ibuf = Idle /\ obuf = Idle /\ mono = 0
    /\ events = Idle /\ driver = Idle /\ hist = Idle

DoParse ==
    /\ call.op = "none"
    /\ tokens' = parse(chars)
    /\ call' = [op |-> "parse"]
    /\ UNCHANGED <<chars, ParseUnused>>

NextParse == DoParse

SpecParse == InitParse /\ [][NextParse]_vars

IsLoud(toks, i) == i \in DOMAIN toks /\ toks[i].emphasis = "loud"
IsShout(toks, i) == i \in DOMAIN toks /\ toks[i].emphasis = "shout"

\* C7: in the list parse() returns, a token classified 'loud' that has a
\* 'loud' neighbour (a run of two or more) is 'shout', a 'loud' token with
\* no 'loud' neighbour stays 'loud', nothing else changes; so no two
\* adjacent tokens are both 'loud' and every 'shout' has a 'shout' neighbour.
C7_ShoutPromotion ==
    call.op = "parse" =>
        LET pre == parse_tokens(chars)
        IN  /\ Len(tokens) = Len(pre)
            /\ \A i \in DOMAIN pre :
                 /\ tokens[i].emphasis =
                      IF IsLoud(pre, i)
                      THEN IF IsLoud(pre, i - 1) \/ IsLoud(pre, i + 1)
                           THEN "shout" ELSE "loud"
                      ELSE pre[i].emphasis
                 /\ tokens[i] = [pre[i] EXCEPT !.emphasis = tokens[i].emphasis]
                 /\ ~(IsLoud(tokens, i) /\ IsLoud(tokens, i + 1))
                 /\ IsShout(tokens, i) =>
                      (IsShout(tokens, i - 1) \/ IsShout(tokens, i + 1))

\* A parsed chunk with an isolated 'loud' token, a non-loud token and then
\* a promoted run.
C7_Witness ==
    /\ call.op = "parse"
    /\ Len(tokens) >= 4
    /\ tokens[1].emphasis = "loud"
    /\ tokens[2].emphasis = "soft"
    /\ tokens[3].emphasis = "shout"
    /\ tokens[4].emphasis = "shout"

\* The text of group i of the chunk, after sustain and bracket stripping
Stripped(group) ==
    LET text == [i \in DOMAIN group |-> group[i].char]
        dots == Len(text) >= 3 /\ \A k \in 0..2 : text[Len(text) - k] = "."
        t1 == IF dots THEN [i \in 1..(Len(text) - 3) |-> text[i]] ELSE text
        wrapped == t1 # <<>> /\ t1[1] = "[" /\ t1[Len(t1)] = "]"
    IN  IF wrapped THEN [i \in 1..(Len(t1) - 2) |-> t1[i + 1]] ELSE t1

\* C20: a group whose text, after sustain and bracket stripping, starts and
\* ends with '_' and has more than 2 characters gives emphasis 'soft' and
\* the text between the underscores, whatever the case of its letters and
\* the shift flags; no other group is 'soft'; a soft token is never 'shout'
\* and a 'shout' next to it has a 'shout' on its other side.
C20_SoftFirst ==
    call.op = "parse" =>
        LET groups == parse_groups(chars)
        IN  /\ Len(tokens) = Len(groups)
            /\ \A i \in DOMAIN groups :
                 LET t == Stripped(groups[i])
                     soft == Len(t) > 2 /\ t[1] = "_" /\ t[Len(t)] = "_"
                 IN  /\ (tokens[i].emphasis = "soft") <=> soft
                     /\ soft =>
                          /\ tokens[i].text = [k \in 1..(Len(t) - 2) |-> t[k + 1]]
                          /\ IsShout(tokens, i - 1) => IsShout(tokens, i - 2)
                          /\ IsShout(tokens, i + 1) => IsShout(tokens, i + 2)

\* '_A_' typed with shift held is soft, and the upper-case words on its two
\* sides, no longer adjacent, stay 'loud'.
C20_Witness ==
    /\ call.op = "parse"
    /\ Len(tokens) = 3
    /\ tokens[1].emphasis = "loud"
    /\ tokens[2].emphasis = "soft" /\ tokens[2].text = <<"A">>
    /\ \E k \in DOMAIN chars : chars[k].char = "A" /\ chars[k].shift
                                 /\ k > 1 /\ chars[k - 1].char = "_"
    /\ tokens[3].emphasis = "loud"

(***************************************************************************)
(* SpecLLM: MockLLMProcessor.process() applied to a token list of up to    *)
(* MaxTokens tokens from TokenPool.                                        *)
(***************************************************************************)
TokenTexts ==
    { <<"t", "h", "e">>,      \* a lexicon word
      <<"X", "y">>,           \* not in the lexicon
      Ellipsis }              \* no letter at all

\* sustain comes with duration_modifier 2.0, as parse() sets them
TokenPool ==
    { SheetTextToken(t, e, sus, h, IF sus THEN 20 ELSE 10) :
        t \in TokenTexts, e \in {"none", "soft", "loud", "shout"},
        sus \in BOOLEAN, h \in BOOLEAN }

TokenInputs(max) == UNION {[1..n -> TokenPool] : n \in 0..max}

LLMUnused == <<pipe, twin, ibuf, obuf, mono, chars, driver, hist>>

InitLLM ==
    /\ tokens \in TokenInputs(MaxTokens)
    /\ events = <<>>
    /\ call = NoCall
    /\ pipe = Idle /\ twin = Idle /\ ibuf = Idle /\ obuf = Idle /\ mono = 0
    /\ chars = Idle /\ driver = Idle /\ hist = Idle

DoProcess ==
    /\ call.op = "none"
    /\ events' = process(tokens)
    /\ call' = [op |-> "process"]
    /\ UNCHANGED <<tokens, LLMUnused>>

NextLLM == DoProcess

SpecLLM == InitLLM /\ [][NextLLM]_vars

\* C9: the events of one process() call are gap-free and non-overlapping:
\* the first starts at 0, each next one starts where the previous one ends,
\* and start offsets never decrease.
C9_GapFree ==
    call.op = "process" =>
        /\ events # <<>> => events[1].start_ms = 0
        /\ \A i \in 1..(Len(events) - 1) :
             /\ events[i + 1].start_ms = events[i].start_ms + events[i].duration_ms
             /\ events[i + 1].start_ms >= events[i].start_ms

\* An expansion where a sustained token (200 ms per phoneme) is followed by
\* a plain one (100 ms per phoneme).
C9_Witness ==
    /\ call.op = "process"
    /\ Len(events) >= 4
    /\ events[1].duration_ms = 200
    /\ events[Len(events)].duration_ms = 100
    /\ events[Len(events)].start_ms > 400

(***************************************************************************)
(* Spec: one MavisPipeline driven by feed, feed_text and tick.  No         *)
(* recording is started; the clocks stand still (every reading is 0).      *)
(* hist counts the feed and feed_text calls made so far.                   *)
(***************************************************************************)
PipeInCaps == {2, ChunkSize + 2}
PipeOutCaps == {1, 3}

\* feed(char, modifiers) arguments
PipeKeys ==
    { <<"a", <<>>>>,
      <<"A", [shift |-> TRUE, ctrl |-> FALSE, alt |-> FALSE]>>,
      <<" ", [ctrl |-> TRUE]>> }

\* feed_text(text) arguments: "hold... A B" and "is"
PipeTexts ==
    { <<"h", "o", "l", "d", ".", ".", ".", " ", "A", " ", "B">>,
      <<"i", "s">> }

PipeUnused == <<twin, ibuf, obuf, chars, tokens, events, driver>>

Init ==
    /\ pipe \in {MavisPipeline(ic, oc) : ic \in PipeInCaps, oc \in PipeOutCaps}
    /\ mono = 0
    /\ hist = 0
    /\ call = NoCall
    /\ twin = Idle /\ ibuf = Idle /\ obuf = Idle
    /\ chars = Idle /\ tokens = Idle /\ events = Idle /\ driver = Idle

\* Faulty variant of feed(): the keystroke is processed at once, as by a tick().
FeedEager(c, mods) ==
    /\ hist < MaxFeeds
    /\ pipe' = tick(feed(pipe, c, mods, 0), mono).pipe
    /\ hist' = hist + 1
    /\ call' = [op |-> "feed", char |-> c, mods |-> mods]
    /\ UNCHANGED <<mono, PipeUnused>>

Feed(c, mods) ==
    /\ hist < MaxFeeds
    /\ pipe' = feed(pipe, c, mods, 0)
    /\ hist' = hist + 1
    /\ call' = [op |-> "feed", char |-> c, mods |-> mods]
    /\ UNCHANGED <<mono, PipeUnused>>

FeedText(text) ==
    /\ hist < MaxFeeds
    /\ pipe' = feed_text(pipe, text, [i \in DOMAIN text |-> 0])
    /\ hist' = hist + 1
    /\ call' = [op |-> "feed_text", text |-> text]
    /\ UNCHANGED <<mono, PipeUnused>>

Tick ==
    /\ \E r \in {tick(pipe, mono)} :
           /\ pipe' = r.pipe
           /\ call' = [op |-> "tick", chars |-> r.chars, tokens |-> r.tokens,
                       events |-> r.events, popped |-> r.popped, ret |-> r.ret]
    /\ UNCHANGED <<mono, hist, PipeUnused>>

Next ==
    \/ \E k \in PipeKeys : Feed(k[1], k[2])
    \/ \E text \in PipeTexts : FeedText(text)
    \/ Tick

Spec == Init /\ [][Next]_vars

\* C3: a tick() pops one event when the output queue is non-empty after
\* that tick's push and none otherwise: with s events queued before the
\* tick, k events expanded from the chunk and capacity c, the size after the
\* tick, and the size the tick reports, is max(0, min(c, s + k) - 1).
C3_OnePopPerTick ==
    [][call'.op = "tick" =>
        LET s == Len(pipe.output_buffer.buffer)
            k == Len(call'.events)
            c == pipe.output_buffer.capacity
            after == Max(0, Min(c, s + k) - 1)
        IN  /\ Len(pipe'.output_buffer.buffer) = after
            /\ call'.ret.output_buffer_size = after
            /\ (call'.popped # None) <=> (Min(c, s + k) > 0)
            /\ call'.popped # None =>
                 call'.popped[1] = (pipe.output_buffer.buffer \o call'.events)[1]]_vars

\* A tick whose push filled the queue to its capacity (of 3) and whose pop
\* then took exactly one event.
C3_Witness ==
    /\ call.op = "tick"
    /\ pipe.output_buffer.capacity = 3
    /\ Len(call.events) >= 3
    /\ Len(pipe.output_buffer.buffer) = 2
    /\ call.popped # None

\* C4: a tick() on an input queue of n keystrokes removes the min(8, n)
\* oldest ones, in arrival order; they are what that tick tokenizes, and the
\* other n - min(8, n) keystrokes stay queued in order.
C4_ChunkDrain ==
    [][call'.op = "tick" =>
        LET buf == pipe.input_buffer.buffer
            n == Len(buf)
            m == Min(8, n)
        IN  /\ call'.chars = SubSeq(buf, 1, m)
            /\ pipe'.input_buffer.buffer = SubSeq(buf, m + 1, n)
            /\ call'.ret.input_buffer_size = n - m
            /\ call'.tokens = IF m = 0 THEN <<>> ELSE parse(SubSeq(buf, 1, m))]_vars

\* A tick that drained a full chunk of 8 and left keystrokes behind.
C4_Witness ==
    /\ call.op = "tick"
    /\ Len(call.chars) = 8
    /\ Len(pipe.input_buffer.buffer) >= 2
    /\ call.tokens # <<>>

PipeOutputs(p) == <<p.output_buffer, p.last_tokens, p.last_phoneme, p.last_audio>>

\* C5: feed() and feed_text() leave the output queue, the last token list
\* and the last popped phoneme as they were; these change only in tick().
C5_FeedOnlyQueues ==
    [][/\ call'.op \in {"feed", "feed_text"} =>
            /\ PipeOutputs(pipe') = PipeOutputs(pipe)
            /\ pipe'.input_buffer.capacity = pipe.input_buffer.capacity
       /\ PipeOutputs(pipe') # PipeOutputs(pipe) => call'.op = "tick"]_vars

\* A feed() on a pipeline with queued events, tokens and a popped phoneme.
C5_Witness ==
    /\ call.op = "feed"
    /\ pipe.output_buffer.buffer # <<>>
    /\ pipe.last_tokens # <<>>
    /\ pipe.last_phoneme # None
    /\ Len(pipe.input_buffer.buffer) = 1

(***************************************************************************)
(* SpecE2E: the driver of test_full_flow on a default pipeline with a      *)
(* recording started: feed_text(text), then FullFlowTicks ticks, keeping   *)
(* every non-null last_phoneme in phonemes_seen.                           *)
(***************************************************************************)
\* "the SUN... is falling _down_ and RISING [again]"
DemoText ==
    <<"t","h","e"," ","S","U","N",".",".","."," ","i","s"," ","f","a","l",
      "l","i","n","g"," ","_","d","o","w","n","_"," ","a","n","d"," ","R",
      "I","S","I","N","G"," ","[","a","g","a","i","n","]">>

\* "the SUN... is falling _down_", "hello world", "I SAID STOP"
E2ETexts ==
    { DemoText,
      <<"t","h","e"," ","S","U","N",".",".","."," ","i","s"," ","f","a","l",
        "l","i","n","g"," ","_","d","o","w","n","_">>,
      <<"h","e","l","l","o"," ","w","o","r","l","d">>,
      <<"I"," ","S","A","I","D"," ","S","T","O","P">> }

E2EUnused == <<twin, ibuf, obuf, chars, tokens, events, hist>>

InitE2E ==
    /\ pipe = create_pipeline
    /\ driver \in {[text |-> t, pc |-> "record", i |-> 0, phonemes_seen |-> <<>>] :
                      t \in E2ETexts}
    /\ mono = 0
    /\ call = NoCall
    /\ twin = Idle /\ ibuf = Idle /\ obuf = Idle
    /\ chars = Idle /\ tokens = Idle /\ events = Idle /\ hist = Idle

E2ERecord ==
    /\ driver.pc = "record"
    /\ pipe' = start_recording(pipe)
    /\ driver' = [driver EXCEPT !.pc = "feed"]
    /\ call' = [op |-> "start_recording"]
    /\ UNCHANGED <<mono, E2EUnused>>

E2EFeedText ==
    /\ driver.pc = "feed"
    /\ pipe' = feed_text(pipe, driver.text, [i \in DOMAIN driver.text |-> 0])
    /\ driver' = [driver EXCEPT !.pc = "tick"]
    /\ call' = [op |-> "feed_text", text |-> driver.text]
    /\ UNCHANGED <<mono, E2EUnused>>

E2ETick ==
    /\ driver.pc = "tick"
    /\ driver.i < FullFlowTicks
    /\ \E r \in {tick(pipe, mono)} :
           /\ pipe' = r.pipe
           /\ driver' = [driver EXCEPT
                           !.i = @ + 1,
                           !.phonemes_seen = @ \o r.ret.last_phoneme]
           /\ call' = [op |-> "tick", chars |-> r.chars, tokens |-> r.tokens,
                       events |-> r.events, popped |-> r.popped, ret |-> r.ret]
    /\ UNCHANGED <<mono, E2EUnused>>

NextE2E == E2ERecord \/ E2EFeedText \/ E2ETick

SpecE2E == InitE2E /\ [][NextE2E]_vars

E2EDone == driver.pc = "tick" /\ driver.i = FullFlowTicks

\* The tokens the recording has logged, tick after tick
RecordedTokens == pipe.recording[1].tokens

Word_RISING == <<"R", "I", "S", "I", "N", "G">>
Word_down == <<"d", "o", "w", "n">>
Word_SUN == <<"S", "U", "N">>
Word_again == <<"a", "g", "a", "i", "n">>

DetConfigs == {<<2, 1>>, <<3, 5>>}

\* feed(char, modifiers) arguments
DetKeys ==
    { <<"A", [shift |-> TRUE, ctrl |-> FALSE, alt |-> FALSE]>>,
      <<" ", <<>>>> }

DetUnused == <<ibuf, obuf, chars, tokens, events, driver>>

InitDet ==
    /\ \E cfg \in DetConfigs :
          /\ pipe = MavisPipeline(cfg[1], cfg[2])
          /\ twin = MavisPipeline(cfg[1], cfg[2])
    /\ mono = 0
    /\ hist = [feeds |-> 0, skew |-> FALSE]
    /\ call = NoCall
    /\ ibuf = Idle /\ obuf = Idle
    /\ chars = Idle /\ tokens = Idle /\ events = Idle /\ driver = Idle

DetFeed(c, mods, ts) ==
    /\ hist.feeds < MaxFeeds
    /\ pipe' = feed(pipe, c, mods, 0)
    /\ twin' = feed(twin, c, mods, ts)
    /\ hist' = [feeds |-> hist.feeds + 1, skew |-> hist.skew \/ ts # 0]
    /\ call' = [op |-> "feed", char |-> c, mods |-> mods]
    /\ UNCHANGED <<mono, DetUnused>>

DetTick ==
    /\ \E r \in {tick(pipe, 0)}, t \in {tick(twin, mono)} :
           /\ pipe' = r.pipe
           /\ twin' = t.pipe
           /\ call' = [op |-> "tick",
                       tokens |-> r.tokens, events |-> r.events, ret |-> r.ret,
                       twin_tokens |-> t.tokens, twin_events |-> t.events,
                       twin_ret |-> t.ret]
    /\ UNCHANGED <<mono, hist, DetUnused>>

DetAdvance ==
    /\ mono < MaxMono
    /\ mono' = mono + 1
    /\ call' = [op |-> "advance"]
    /\ UNCHANGED <<pipe, twin, hist, DetUnused>>

NextDet ==
    \/ \E k \in DetKeys, ts \in 0..MaxStamp : DetFeed(k[1], k[2], ts)
    \/ DetTick
    \/ DetAdvance

SpecDet == InitDet /\ [][NextDet]_vars

\* What a state dict reports, the two rate fields left out
Report(st) ==
    [input_buffer_level |-> st.input_buffer_level,
     input_buffer_size |-> st.input_buffer_size,
     output_buffer_level |-> st.output_buffer_level,
     output_buffer_status |-> st.output_buffer_status,
     output_buffer_size |-> st.output_buffer_size,
     last_tokens |-> st.last_tokens,
     last_phoneme |-> st.last_phoneme]

\* C10: two pipelines of one configuration under the same feed(char,
\* modifiers) and tick() calls report after every tick the same input size,
\* output size, output zone, last token texts and last popped phoneme,
\* whatever their clocks read; their ticks tokenize alike and expand the
\* tokens to the same events.
C10_Determinism ==
    call.op = "tick" =>
        /\ Report(call.ret) = Report(call.twin_ret)
        /\ call.tokens = call.twin_tokens
        /\ call.events = call.twin_events
        /\ twin.last_audio = pipe.last_audio

\* A tick that popped a phoneme in both runs although the twin's keystrokes
\* were stamped differently and its clock, and so its push log, differ.
C10_Witness ==
    /\ call.op = "tick"
    /\ hist.skew
    /\ mono > 0
    /\ call.ret.last_phoneme # None
    /\ call.ret.last_tokens # <<>>
    /\ pipe.output_buffer.push_times # twin.output_buffer.push_times

(***************************************************************************)
(* SpecFifo: the pipeline of Spec under feed, feed_text and tick, with the *)
(* log of what the output queue accepted and what the ticks popped.        *)
(* accepted grows by the events a tick's push put into the queue (read off *)
(* the queue right after step 4), popped by the event step 5 took out.     *)
(***************************************************************************)
FifoUnused == <<twin, ibuf, obuf, chars, tokens, events, driver>>

InitFifo ==
    /\ pipe \in {MavisPipeline(ic, oc) : ic \in PipeInCaps, oc \in PipeOutCaps}
    /\ mono = 0
    /\ hist = [feeds |-> 0, accepted |-> <<>>, popped |-> <<>>]
    /\ call = NoCall
    /\ twin = Idle /\ ibuf = Idle /\ obuf = Idle
    /\ chars = Idle /\ tokens = Idle /\ events = Idle /\ driver = Idle

FifoFeed(c, mods) ==
    /\ hist.feeds < MaxFeeds
    /\ pipe' = feed(pipe, c, mods, 0)
    /\ hist' = [hist EXCEPT !.feeds = @ + 1]
    /\ call' = [op |-> "feed", char |-> c, mods |-> mods]
    /\ UNCHANGED <<mono, FifoUnused>>

FifoFeedText(text) ==
    /\ hist.feeds < MaxFeeds
    /\ pipe' = feed_text(pipe, text, [i \in DOMAIN text |-> 0])
    /\ hist' = [hist EXCEPT !.feeds = @ + 1]
    /\ call' = [op |-> "feed_text", text |-> text]
    /\ UNCHANGED <<mono, FifoUnused>>

FifoTick ==
    /\ \E pushed \in {tick_push(tick_process(tick_record_tokens(
                         tick_parse(tick_consume(pipe, mono)))))} :
       \E r \in {tick_return(tick_record_state(tick_pop(pushed)))} :
           /\ pipe' = r.pipe
           /\ hist' = [hist EXCEPT
                         !.accepted = @ \o SubSeq(pushed.pipe.output_buffer.buffer,
                                                  Len(pipe.output_buffer.buffer) + 1,
                                                  Len(pushed.pipe.output_buffer.buffer)),
                         !.popped = @ \o r.popped]
           /\ call' = [op |-> "tick", events |-> r.events, popped |-> r.popped,
                       offered |-> Len(r.events),
                       room |-> pipe.output_buffer.capacity
                                  - Len(pipe.output_buffer.buffer)]
    /\ UNCHANGED <<mono, FifoUnused>>

NextFifo ==
    \/ \E k \in PipeKeys : FifoFeed(k[1], k[2])
    \/ \E text \in PipeTexts : FifoFeedText(text)
    \/ FifoTick

SpecFifo == InitFifo /\ [][NextFifo]_vars

\* C11: over feed and tick calls, the events the ticks have popped followed
\* by the events still queued are exactly the events push accepted, in
\* acceptance order: the popped sequence is a prefix of the accepted one,
\* and accepted = popped + queue size.
C11_PoppedOnceInOrder ==
    /\ hist.accepted = hist.popped \o pipe.output_buffer.buffer
    /\ Len(hist.popped) <= Len(hist.accepted)
    /\ SubSeq(hist.accepted, 1, Len(hist.popped)) = hist.popped
    /\ Len(hist.accepted) = Len(hist.popped) + Len(pipe.output_buffer.buffer)

\* Two different events popped by two ticks while another waits, after a
\* push that had to drop part of what it was offered.
C11_Witness ==
    /\ call.op = "tick"
    /\ Len(hist.popped) >= 2
    /\ hist.popped[1] # hist.popped[2]
    /\ pipe.output_buffer.buffer # <<>>
    /\ call.offered > call.room

(***************************************************************************)
(* SpecRate: one OutputBuffer under push, pop and state() while the        *)
(* monotonic clock runs up to MaxClock seconds, past the 2.0 s rate        *)
(* window.  Rates are pairs <<count, seconds>>.                            *)
(***************************************************************************)
RateArgs == {process(<<PlainToken(<<"a">>)>>)}

InitRate ==
    /\ obuf = OutputBuffer(MaxLog)
    /\ mono = 0
    /\ call = NoCall
    /\ pipe = Idle /\ twin = Idle /\ ibuf = Idle
    /\ chars = Idle /\ tokens = Idle /\ events = Idle /\ driver = Idle
    /\ hist = Idle

\* state() with the timestamp lists it found, for the statement of the rates
RateState ==
    /\ \E r \in {OutputBuffer_state(obuf, mono)} :
           /\ obuf' = r.ob
           /\ call' = [op |-> "state", ret |-> r.ret, now |-> mono,
                       push_times |-> obuf.push_times, pop_times |-> obuf.pop_times]
    /\ UNCHANGED <<mono, OutUnused>>

RateAdvance ==
    /\ mono < MaxClock
    /\ mono' = mono + 1
    /\ call' = [op |-> "advance"]
    /\ UNCHANGED <<obuf, OutUnused>>

NextRate ==
    \/ \E evs \in RateArgs : OBPush(evs)
    \/ OBPop
    \/ RateState
    \/ RateAdvance

SpecRate == InitRate /\ [][NextRate]_vars

\* The timestamps of a list that lie in the window at time now
InWindow(timestamps, now) ==
    SelectSeq(timestamps, LAMBDA t : now - t <= RateWindow)

\* count / span of the timestamps in the window, count when the span is 0
SpanRate(timestamps, now) ==
    LET w == InWindow(timestamps, now)
    IN  IF w = <<>> THEN <<0, 1>>
        ELSE IF now - w[1] > 0 THEN <<Len(w), now - w[1]>>
        ELSE <<Len(w), 1>>

\* C15: at a snapshot at time now the fill rate is the number of push
\* timestamps t with now - t <= 2.0 divided by the span now - (oldest such
\* timestamp), not by the window width (the count itself when that span is
\* 0); the drain rate likewise from the pop timestamps; both are 0 when no
\* timestamp lies in the window, and never negative.
C15_WindowedRate ==
    call.op = "state" =>
        /\ call.ret.fill_rate = SpanRate(call.push_times, call.now)
        /\ call.ret.drain_rate = SpanRate(call.pop_times, call.now)
        /\ InWindow(call.push_times, call.now) = <<>> => call.ret.fill_rate[1] = 0
        /\ InWindow(call.pop_times, call.now) = <<>> => call.ret.drain_rate[1] = 0
        /\ call.ret.fill_rate[1] >= 0 /\ call.ret.fill_rate[2] > 0
        /\ call.ret.drain_rate[1] >= 0 /\ call.ret.drain_rate[2] > 0

\* Three pushes in the window, the oldest 1 s old: 3 events/s where the
\* window width would give 1.5, and a drain rate from one pop.
C15_Witness ==
    /\ call.op = "state"
    /\ Len(InWindow(call.push_times, call.now)) = 3
    /\ call.now - call.push_times[1] = 1
    /\ call.ret.fill_rate = <<3, 1>>
    /\ call.ret.drain_rate[1] = 1

\* C16 as stated: when exactly one timestamp survives in the window the
\* reported rate is the count, 1 event per second, however long ago within
\* the window the event occurred.
C16_AsStated ==
    call.op = "state" =>
        /\ Len(InWindow(call.push_times, call.now)) = 1 => call.ret.fill_rate = <<1, 1>>
        /\ Len(InWindow(call.pop_times, call.now)) = 1 => call.ret.drain_rate = <<1, 1>>

\* C16, amended: when exactly one timestamp t survives in the window the
\* reported rate is 1 / (now - t) events per second when now > t, and the
\* count, 1, only when now = t: an event 2 s old reports 0.5, not 1.
C16_SingleSample ==
    call.op = "state" =>
        /\ \A t \in 0..call.now :
              InWindow(call.push_times, call.now) = <<t>> =>
                  call.ret.fill_rate = IF call.now > t THEN <<1, call.now - t>>
                                       ELSE <<1, 1>>
        /\ \A t \in 0..call.now :
              InWindow(call.pop_times, call.now) = <<t>> =>
                  call.ret.drain_rate = IF call.now > t THEN <<1, call.now - t>>
                                        ELSE <<1, 1>>

\* One push, 2 s before the snapshot and still in the window: 0.5 events/s.
C16_Witness ==
    /\ call.op = "state"
    /\ call.push_times = <<call.now - 2>>
    /\ call.ret.fill_rate = <<1, 2>>
    /\ obuf.push_times = call.push_times

\* C17: after a state() call at time now no retained push or pop timestamp
\* is older than now - 2.0; and when more than 2.0 s have passed since the
\* last push (the last pop), that call reports fill rate (drain rate) 0.
C17_StalePruned ==
    call.op = "state" =>
        /\ \A i \in DOMAIN obuf.push_times : obuf.push_times[i] >= call.now - RateWindow
        /\ \A i \in DOMAIN obuf.pop_times : obuf.pop_times[i] >= call.now - RateWindow
        /\ (/\ call.push_times # <<>>
            /\ call.now - call.push_times[Len(call.push_times)] > RateWindow)
              => /\ call.ret.fill_rate = <<0, 1>>
                 /\ obuf.push_times = <<>>
        /\ (/\ call.pop_times # <<>>
            /\ call.now - call.pop_times[Len(call.pop_times)] > RateWindow)
              => /\ call.ret.drain_rate = <<0, 1>>
                 /\ obuf.pop_times = <<>>

\* A snapshot 3 s after the only pushes: their timestamps are dropped and
\* the fill rate is 0, while a pop 1 s old is retained.
C17_Witness ==
    /\ call.op = "state"
    /\ Len(call.push_times) >= 2
    /\ call.now - call.push_times[Len(call.push_times)] = 3
    /\ obuf.push_times = <<>>
    /\ call.ret.fill_rate = <<0, 1>>
    /\ obuf.pop_times = <<call.now - 1>>

(***************************************************************************)
(* SpecMarkup: parse() applied to a chunk of up to MaxTokens groups from   *)
(* MarkupPool, joined by single spaces; hist keeps the groups typed.       *)
(***************************************************************************)
Ctrl(text) == [i \in DOMAIN text |-> Key(text[i], FALSE, TRUE)]

MarkupPool ==
    { Typed(<<"a">>),                                   \* a
      Typed(<<"a", ".", ".", ".">>),                    \* a...
      Typed(<<".", ".", ".">>),                         \* ...
      Ctrl(<<".", ".", ".">>),                          \* ... with ctrl held
      Typed(<<".", ".", ".", ".">>),                    \* ....
      Typed(<<".", ".">>),                              \* ..
      Typed(<<"a", ".", ".", ".", "b">>),               \* a...b
      Typed(<<"[", "a", "]">>),                         \* [a]
      Typed(<<"[", "a", "]", ".", ".", ".">>),          \* [a]...
      Typed(<<"[", ".", ".", ".", "]">>),               \* [...]
      Typed(<<"[", "a">>),                              \* [a
      Typed(<<"[", "]">>),                              \* []
      Ctrl(<<"a", "b">>),                               \* ab with ctrl held
      <<Key("[", FALSE, FALSE), Key("a", FALSE, TRUE),
        Key("]", FALSE, FALSE)>>,                       \* [a] with ctrl on a
      Typed(<<"[", "_", "a", "_", "]", ".", ".", ".">>),\* [_a_]...
      Typed(<<"[", "_", "a", "_", "]">>),               \* [_a_]
      Typed(<<"_", "[", "a", "]", "_">>),               \* _[a]_
      Typed(<<"a", "_", "b">>),                         \* a_b
      Typed(<<"_", "1", "_">>),                         \* _1_
      <<Key("1", TRUE, FALSE), Key("!", TRUE, FALSE)>>, \* 1! with shift held
      Typed(<<"A", "B">>),                              \* AB
      Typed(<<"A", "b">>),                              \* Ab, no shift flag
      <<Key("A", TRUE, FALSE), Key("b", FALSE, FALSE)>>,\* Ab, shift on A
      <<Key("a", TRUE, FALSE), Key("b", FALSE, FALSE)>>,\* ab, shift on a
      <<Key("A", FALSE, FALSE), Key("b", FALSE, FALSE),
        Key("!", TRUE, FALSE)>>                         \* Ab!, shift on ! only
    }

MarkupUnused == <<pipe, twin, ibuf, obuf, mono, events, driver>>

InitMarkup ==
    /\ \E n \in 0..MaxTokens : \E gs \in [1..n -> MarkupPool] :
          /\ hist = gs
          /\ chars = JoinGroups(gs, 1)
    /\ tokens = <<>>
    /\ call = NoCall
    /\ pipe = Idle /\ twin = Idle /\ ibuf = Idle /\ obuf = Idle /\ mono = 0
    /\ events = Idle /\ driver = Idle

MarkupParse ==
    /\ call.op = "none"
    /\ tokens' = parse(chars)
    /\ call' = [op |-> "parse"]
    /\ UNCHANGED <<chars, hist, MarkupUnused>>

NextMarkup == MarkupParse

SpecMarkup == InitMarkup /\ [][NextMarkup]_vars

\* The characters typed in a group
Chars(group) == [i \in DOMAIN group |-> group[i].char]

\* s ends with three dots
EndsWithDots(s) ==
    Len(s) >= 3 /\ s[Len(s)] = "." /\ s[Len(s) - 1] = "." /\ s[Len(s) - 2] = "."

\* s without its last three characters
DropDots(s) == [i \in 1..(Len(s) - 3) |-> s[i]]

\* s without its first and last character
Inner(s) == [i \in 1..(Len(s) - 2) |-> s[i + 1]]

\* C18: one token per group; the token has sustain and duration_modifier
\* 2.0 exactly when the group's text ends with '...', else no sustain and
\* 1.0; the token's text is the group's text without those three dots (and
\* without the brackets or underscores that wrap it); a group that is only
\* '...' gives the token '...', emphasis none, sustain, no harmony.
C18_Sustain ==
    call.op = "parse" =>
        /\ Len(tokens) = Len(hist)
        /\ \A i \in DOMAIN hist :
             LET text == Chars(hist[i])
                 tok == tokens[i]
                 body == IF EndsWithDots(text) THEN DropDots(text) ELSE text
             IN  /\ tok.sustain <=> EndsWithDots(text)
                 /\ tok.duration_modifier = IF EndsWithDots(text) THEN 20 ELSE 10
                 /\ text = <<".", ".", ".">> =>
                       tok = [text |-> <<".", ".", ".">>, emphasis |-> "none",
                              sustain |-> TRUE, harmony |-> FALSE,
                              duration_modifier |-> 20]
                 /\ text # <<".", ".", ".">> =>
                       /\ tok.text \in {body, Inner(body), Inner(Inner(body))}
                       /\ body[1] \notin {"[", "_"} => tok.text = body

\* 'a...' and '....' parsed to a sustained 'a' and a sustained '.'.
C18_Witness ==
    /\ call.op = "parse"
    /\ Len(tokens) = 2
    /\ Chars(hist[1]) = <<"a", ".", ".", ".">>
    /\ tokens[1].text = <<"a">> /\ tokens[1].sustain /\ tokens[1].duration_modifier = 20
    /\ Chars(hist[2]) = <<".", ".", ".", ".">>
    /\ tokens[2].text = <<".">> /\ tokens[2].sustain

\* C19: for a group that is not a stand-alone '...', harmony holds exactly
\* when the text left after sustain stripping starts with '[' and ends with
\* ']' or some keystroke of the group has ctrl set; the brackets are
\* removed in the first case and the text is left as is otherwise.
C19_Harmony ==
    call.op = "parse" =>
        \A i \in DOMAIN hist :
            LET text == Chars(hist[i])
                tok == tokens[i]
                body == IF EndsWithDots(text) THEN DropDots(text) ELSE text
                wrapped == body # <<>> /\ body[1] = "[" /\ body[Len(body)] = "]"
                ctrl == \E k \in DOMAIN hist[i] : hist[i][k].ctrl
                unwrapped == IF wrapped THEN Inner(body) ELSE body
            IN  text # <<".", ".", ".">> =>
                    /\ tok.harmony <=> (wrapped \/ ctrl)
                    /\ tok.emphasis # "soft" => tok.text = unwrapped
                    /\ tok.emphasis = "soft" => tok.text = Inner(unwrapped)

\* '[a]...' gave harmony on 'a' by its brackets, 'ab' typed with ctrl held
\* gave harmony on 'ab' by the flag.
C19_Witness ==
    /\ call.op = "parse"
    /\ Len(tokens) = 2
    /\ Chars(hist[1]) = <<"[", "a", "]", ".", ".", ".">>
    /\ tokens[1].harmony /\ tokens[1].text = <<"a">>
    /\ \A k \in DOMAIN hist[1] : ~hist[1][k].ctrl
    /\ hist[2][1].ctrl
    /\ tokens[2].harmony /\ tokens[2].text = <<"a", "b">>

\* The letters of a sequence of characters
Letters(text) == SelectSeq(text, isalpha)

\* text is wrapped in underscores with something between them
Underscored(text) == Len(text) > 2 /\ text[1] = "_" /\ text[Len(text)] = "_"

\* C21 as stated: a group that is not soft is 'loud' (or, promoted,
\* 'shout') exactly when it has a letter and either all its letters are
\* upper case or some keystroke of the group, alphabetic or not, has shift
\* set and the group has an upper-case letter; otherwise 'none'.
C21_AsStated ==
    call.op = "parse" =>
        \A i \in DOMAIN hist :
            LET letters == Letters(Chars(hist[i]))
                upper == {k \in DOMAIN letters : isupper(letters[k])}
                shift == \E k \in DOMAIN hist[i] : hist[i][k].shift
                loud == /\ letters # <<>>
                        /\ \/ upper = DOMAIN letters
                           \/ shift /\ upper # {}
            IN  ~Underscored(Stripped(hist[i])) =>
                    /\ tokens[i].emphasis \in {"loud", "shout"} <=> loud
                    /\ ~loud => tokens[i].emphasis = "none"

\* C21, amended: a group that is not soft is 'loud' (or, promoted, 'shout')
\* exactly when it has a letter and either all its letters are upper case
\* or some alphabetic keystroke of the group has shift set and the group
\* has an upper-case letter; otherwise 'none'.  A shift flag on a
\* non-alphabetic keystroke does not count.
C21_LoudDetection ==
    call.op = "parse" =>
        \A i \in DOMAIN hist :
            LET letters == Letters(Chars(hist[i]))
                upper == {k \in DOMAIN letters : isupper(letters[k])}
                shift == \E k \in DOMAIN hist[i] :
                            /\ hist[i][k].shift
                            /\ isalpha(hist[i][k].char)
                loud == /\ letters # <<>>
                        /\ \/ upper = DOMAIN letters
                           \/ shift /\ upper # {}
            IN  ~Underscored(Stripped(hist[i])) =>
                    /\ tokens[i].emphasis \in {"loud", "shout"} <=> loud
                    /\ ~loud => tokens[i].emphasis = "none"

\* 'Ab!' with shift on '!' only is 'none'; 'Ab' with shift on 'A' is 'loud'.
C21_Witness ==
    /\ call.op = "parse"
    /\ Len(tokens) = 2
    /\ Chars(hist[1]) = <<"A", "b", "!">>
    /\ hist[1][3].shift /\ ~hist[1][1].shift
    /\ tokens[1].emphasis = "none"
    /\ Chars(hist[2]) = <<"A", "b">>
    /\ hist[2][1].shift
    /\ tokens[2].emphasis = "loud"

\* s holds one of the delimiter characters, or ends with three dots
HasDelimiter(s) ==
    \/ \E k \in DOMAIN s : s[k] \in {"_", "[", "]"}
    \/ EndsWithDots(s)

\* The group's text with the wrapping markup removed: a trailing '...',
\* then one pair of outermost brackets, then one pair of outermost
\* underscores with something between them
Unwrapped(group) ==
    IF Chars(group) = <<".", ".", ".">> THEN Chars(group)
    ELSE IF Underscored(Stripped(group)) THEN Inner(Stripped(group))
    ELSE Stripped(group)

\* C22 as stated: no token's text contains '_', '[' or ']' or ends with
\* '...'.
C22_AsStated ==
    call.op = "parse" => \A i \in DOMAIN tokens : ~HasDelimiter(tokens[i].text)

\* C22, amended: a token's text is its group's text with only the wrapping
\* markup removed: a trailing '...', then one pair of outermost brackets,
\* then one pair of outermost underscores around a non-empty text.
\* Delimiter characters anywhere else stay in the text, and the stand-alone
\* '...' token keeps the text '...'.
C22_OnlyWrappersStripped ==
    call.op = "parse" =>
        /\ Len(tokens) = Len(hist)
        /\ \A i \in DOMAIN hist :
             LET text == Chars(hist[i])
                 tok == tokens[i]
                 cut == (IF tok.sustain /\ text # <<".", ".", ".">> THEN 3 ELSE 0)
                        + (IF Stripped(hist[i]) # (IF EndsWithDots(text)
                                                   THEN DropDots(text) ELSE text)
                           THEN 2 ELSE 0)
                        + (IF tok.emphasis = "soft" THEN 2 ELSE 0)
             IN  /\ tok.text = Unwrapped(hist[i])
                 /\ Len(tok.text) = Len(text) - cut
                 /\ HasDelimiter(tok.text) <=> HasDelimiter(Unwrapped(hist[i]))

\* '[a' keeps its bracket and the stand-alone '...' keeps its dots.
C22_Witness ==
    /\ call.op = "parse"
    /\ Len(tokens) = 2
    /\ Chars(hist[1]) = <<"[", "a">>
    /\ tokens[1].text = <<"[", "a">>
    /\ tokens[2].text = <<".", ".", ".">>
    /\ tokens[2].sustain

\* C23 as stated: a group without alphabetic characters yields emphasis
\* 'none', whatever the modifier flags of its keystrokes.
C23_AsStated ==
    call.op = "parse" =>
        \A i \in DOMAIN hist :
            Letters(Chars(hist[i])) = <<>> => tokens[i].emphasis = "none"

\* C23, amended: a group without alphabetic characters is never 'loud' or
\* 'shout', whatever the modifier flags of its keystrokes; its emphasis is
\* 'soft' when its text, after sustain and bracket stripping, is wrapped in
\* underscores around at least one character, and 'none' otherwise.
C23_NoLettersNotLoud ==
    call.op = "parse" =>
        \A i \in DOMAIN hist :
            Letters(Chars(hist[i])) = <<>> =>
                /\ tokens[i].emphasis \notin {"loud", "shout"}
                /\ tokens[i].emphasis =
                      IF Underscored(Stripped(hist[i])) THEN "soft" ELSE "none"

\* '_1_' is soft; '1!' typed with shift held is 'none'.
C23_Witness ==
    /\ call.op = "parse"
    /\ Len(tokens) = 2
    /\ Chars(hist[1]) = <<"_", "1", "_">>
    /\ tokens[1].emphasis = "soft" /\ tokens[1].text = <<"1">>
    /\ Chars(hist[2]) = <<"1", "!">>
    /\ \A k \in DOMAIN hist[2] : hist[2][k].shift
    /\ tokens[2].emphasis = "none"

\* C24: a group '[_w_]', w not empty, gives text w, harmony and 'soft'; a
\* group '_[w]_' gives 'soft' with the text '[w]', brackets kept, and
\* harmony only from a ctrl flag.  A trailing '...' is stripped first.
C24_BracketsThenUnderscores ==
    call.op = "parse" =>
        \A i \in DOMAIN hist :
            LET text == Chars(hist[i])
                body == IF EndsWithDots(text) THEN DropDots(text) ELSE text
                n == Len(body)
                ctrl == \E k \in DOMAIN hist[i] : hist[i][k].ctrl
            IN  /\ (n >= 5 /\ body[1] = "[" /\ body[2] = "_"
                           /\ body[n - 1] = "_" /\ body[n] = "]") =>
                       /\ tokens[i].text = Inner(Inner(body))
                       /\ tokens[i].harmony
                       /\ tokens[i].emphasis = "soft"
                /\ (n >= 5 /\ body[1] = "_" /\ body[2] = "["
                           /\ body[n - 1] = "]" /\ body[n] = "_") =>
                       /\ tokens[i].text = Inner(body)
                       /\ tokens[i].harmony <=> ctrl
                       /\ tokens[i].emphasis = "soft"

\* '[_a_]' parsed to a soft harmony 'a', '_[a]_' to a soft '[a]' without
\* harmony.
C24_Witness ==
    /\ call.op = "parse"
    /\ Len(tokens) = 2
    /\ Chars(hist[1]) = <<"[", "_", "a", "_", "]">>
    /\ tokens[1] = [text |-> <<"a">>, emphasis |-> "soft", sustain |-> FALSE,
                    harmony |-> TRUE, duration_modifier |-> 10]
    /\ Chars(hist[2]) = <<"_", "[", "a", "]", "_">>
    /\ tokens[2] = [text |-> <<"[", "a", "]">>, emphasis |-> "soft",
                    sustain |-> FALSE, harmony |-> FALSE, duration_modifier |-> 10]

(***************************************************************************)
(* Starvation, under Spec.                                                 *)
(***************************************************************************)
\* C25: a tick() on a pipeline whose input and output queues are both empty
\* returns a state dict, leaves both queues empty, reports input size 0,
\* output size 0, zone 'underflow' and a null last phoneme, and pushes no
\* events.
C25_StarvingTick ==
    [][(call'.op = "tick" /\ pipe.input_buffer.buffer = <<>>
                          /\ pipe.output_buffer.buffer = <<>>) =>
        /\ pipe'.input_buffer.buffer = <<>>
        /\ pipe'.output_buffer.buffer = <<>>
        /\ call'.ret.input_buffer_size = 0
        /\ call'.ret.output_buffer_size = 0
        /\ call'.ret.output_buffer_level = <<0, pipe.output_buffer.capacity>>
        /\ call'.ret.output_buffer_status = "underflow"
        /\ call'.ret.last_phoneme = None
        /\ pipe'.last_phoneme = None /\ pipe'.last_audio = None
        /\ call'.chars = <<>> /\ call'.tokens = <<>> /\ call'.events = <<>>
        /\ call'.popped = None
        /\ pipe'.output_buffer.push_times = pipe.output_buffer.push_times
        /\ pipe'.output_buffer.pop_times = pipe.output_buffer.pop_times
        /\ pipe'.last_tokens = pipe.last_tokens]_vars

\* A starving tick on a pipeline that has played before: an earlier tick
\* tokenized a chunk and popped a phoneme, this one found both queues empty.
C25_Witness ==
    /\ call.op = "tick"
    /\ call.chars = <<>> /\ call.events = <<>> /\ call.popped = None
    /\ pipe.input_buffer.buffer = <<>> /\ pipe.output_buffer.buffer = <<>>
    /\ pipe.output_buffer.pop_times # <<>>
    /\ pipe.last_tokens # <<>>
    /\ call.ret.output_buffer_status = "underflow"
    /\ call.ret.last_phoneme = None

(***************************************************************************)
(* SpecCtor: the three constructors called with any capacity in            *)
(* -1..MaxCtorCap, and the object they return put to use.  One object is   *)
(* alive at a time; hist counts the feeds of the pipeline.                 *)
(***************************************************************************)
CtorCaps == (-1)..MaxCtorCap

IsRaised(x) == "raised" \in DOMAIN x

InitCtor ==
    /\ ibuf = Idle /\ obuf = Idle /\ pipe = Idle
    /\ mono = 0
    /\ hist = 0
    /\ call = NoCall
    /\ twin = Idle /\ chars = Idle /\ tokens = Idle /\ events = Idle
    /\ driver = Idle

CtorUnused == <<twin, mono, chars, tokens, events, driver>>

NewInputBuffer(c) ==
    /\ ibuf' = InputBuffer_init(c)
    /\ obuf' = Idle /\ pipe' = Idle /\ hist' = 0
    /\ call' = [op |-> "InputBuffer", capacity |-> <<c>>,
                raised |-> IsRaised(InputBuffer_init(c))]
    /\ UNCHANGED CtorUnused

NewOutputBuffer(c) ==
    /\ obuf' = OutputBuffer(c)
    /\ ibuf' = Idle /\ pipe' = Idle /\ hist' = 0
    /\ call' = [op |-> "OutputBuffer", capacity |-> <<c>>, raised |-> FALSE]
    /\ UNCHANGED CtorUnused

NewPipeline(ic, oc) ==
    /\ pipe' = MavisPipeline_init(ic, oc)
    /\ ibuf' = Idle /\ obuf' = Idle /\ hist' = 0
    /\ call' = [op |-> "MavisPipeline", capacity |-> <<ic, oc>>,
                raised |-> IsRaised(MavisPipeline_init(ic, oc))]
    /\ UNCHANGED CtorUnused

CtorIBPush(c, mods) ==
    /\ "capacity" \in DOMAIN ibuf
    /\ ibuf' = InputBuffer_push(ibuf, c, mods, 0)
    /\ call' = [op |-> "push", char |-> c, mods |-> mods]
    /\ UNCHANGED <<obuf, pipe, hist, CtorUnused>>

CtorOBPush(evs) ==
    /\ "capacity" \in DOMAIN obuf
    /\ Len(obuf.push_times) < MaxLog
    /\ obuf' = OutputBuffer_push(obuf, evs, mono)
    /\ call' = [op |-> "push", events |-> evs]
    /\ UNCHANGED <<ibuf, pipe, hist, CtorUnused>>

CtorOBState ==
    /\ "capacity" \in DOMAIN obuf
    /\ \E r \in {OutputBuffer_state(obuf, mono)} :
           /\ obuf' = r.ob
           /\ call' = [op |-> "state", ret |-> r.ret]
    /\ UNCHANGED <<ibuf, pipe, hist, CtorUnused>>

CtorFeed(c, mods) ==
    /\ "input_buffer" \in DOMAIN pipe
    /\ hist < MaxFeeds
    /\ pipe' = feed(pipe, c, mods, 0)
    /\ hist' = hist + 1
    /\ call' = [op |-> "feed", char |-> c, mods |-> mods]
    /\ UNCHANGED <<ibuf, obuf, CtorUnused>>

CtorTick ==
    /\ "input_buffer" \in DOMAIN pipe
    /\ \E r \in {tick(pipe, mono)} :
           /\ pipe' = r.pipe
           /\ call' = [op |-> "tick", chars |-> r.chars, tokens |-> r.tokens,
                       events |-> r.events, popped |-> r.popped, ret |-> r.ret]
    /\ UNCHANGED <<ibuf, obuf, hist, CtorUnused>>

NextCtor ==
    \/ \E c \in CtorCaps : NewInputBuffer(c)
    \/ \E c \in CtorCaps : NewOutputBuffer(c)
    \/ \E ic, oc \in CtorCaps : NewPipeline(ic, oc)
    \/ \E k \in InKeys : CtorIBPush(k[1], k[2])
    \/ \E evs \in PushArgs : CtorOBPush(evs)
    \/ CtorOBState
    \/ \E k \in PipeKeys : CtorFeed(k[1], k[2])
    \/ CtorTick

SpecCtor == InitCtor /\ [][NextCtor]_vars

\* C26: constructing an input queue, an output queue or a pipeline with a
\* zero or negative capacity is rejected with an error, so no object exists
\* that has a capacity below 1 and silently drops what is pushed to it.
C26_AsStated ==
    /\ (call.op \in {"InputBuffer", "OutputBuffer", "MavisPipeline"}
          /\ \E k \in DOMAIN call.capacity : call.capacity[k] <= 0)
       => call.raised
    /\ "capacity" \in DOMAIN ibuf => ibuf.capacity > 0
    /\ "capacity" \in DOMAIN obuf => obuf.capacity > 0
    /\ "input_buffer" \in DOMAIN pipe =>
           pipe.input_buffer.capacity > 0 /\ pipe.output_buffer.capacity > 0

(***************************************************************************)
(* Prosody of the expanded events, under SpecLLM.                          *)
(***************************************************************************)
\* The index of the token each event of process(toks) was expanded from
RECURSIVE Owners(_, _)
Owners(toks, i) ==
    IF i > Len(toks) THEN <<>>
    ELSE [k \in 1..Len(word_to_phonemes(toks[i].text)) |-> i] \o Owners(toks, i + 1)

\* C27: every phoneme event carries the prosody of the token it was
\* expanded from: volume 0.5/0.3/0.8/1.0 and pitch 220 Hz times
\* 1.0/0.9/1.1/1.2 for none/soft/loud/shout, breathiness 0.6 for soft and
\* 0.0 otherwise, duration 100 ms times the token's duration multiplier on
\* every phoneme, vibrato equal to the sustain flag, harmony_intervals
\* [4, 7] when the harmony flag is set and empty otherwise.
C27_Prosody ==
    call.op = "process" =>
      \A owner \in {Owners(tokens, 1)} :
        /\ Len(events) = Len(owner)
        /\ \A k \in DOMAIN events :
             LET t == tokens[owner[k]]
                 ev == events[k]
             IN  /\ t.emphasis = "none" =>
                        ev.volume = 5 /\ ev.pitch_hz = 2200 /\ ev.breathiness = 0
                 /\ t.emphasis = "soft" =>
                        ev.volume = 3 /\ ev.pitch_hz = 1980 /\ ev.breathiness = 6
                 /\ t.emphasis = "loud" =>
                        ev.volume = 8 /\ ev.pitch_hz = 2420 /\ ev.breathiness = 0
                 /\ t.emphasis = "shout" =>
                        ev.volume = 10 /\ ev.pitch_hz = 2640 /\ ev.breathiness = 0
                 /\ t.duration_modifier = 10 => ev.duration_ms = 100
                 /\ t.duration_modifier = 20 => ev.duration_ms = 200
                 /\ ev.vibrato = t.sustain
                 /\ ev.harmony_intervals = IF t.harmony THEN <<4, 7>> ELSE <<>>

\* A soft, sustained harmony 'the' followed by a shouted 'Xy': two events
\* with the first token's prosody, then two with the second's.
C27_Witness ==
    /\ call.op = "process"
    /\ Len(tokens) = 2 /\ Len(events) = 4
    /\ tokens[1] = SheetTextToken(<<"t", "h", "e">>, "soft", TRUE, TRUE, 20)
    /\ tokens[2].emphasis = "shout" /\ ~tokens[2].sustain /\ ~tokens[2].harmony
    /\ \A k \in 1..2 :
         /\ events[k].volume = 3 /\ events[k].breathiness = 6
         /\ events[k].pitch_hz = 1980 /\ events[k].duration_ms = 200
         /\ events[k].vibrato /\ events[k].harmony_intervals = <<4, 7>>
    /\ \A k \in 3..4 :
         /\ events[k].volume = 10 /\ events[k].breathiness = 0
         /\ events[k].pitch_hz = 2640 /\ events[k].duration_ms = 100
         /\ ~events[k].vibrato /\ events[k].harmony_intervals = <<>>

(***************************************************************************)
(* SpecLex: process() applied to up to MaxTokens plain tokens whose texts  *)
(* are lexicon words in several spellings, unknown words, and texts with   *)
(* digits, punctuation or no character at all.                             *)
(***************************************************************************)
LexTexts ==
    { <<"t", "h", "e">>,
      <<"T", "h", "e">>,
      <<"S", "U", "N">>,
      <<"X", "y">>,
      <<"x", "1", "Y", "!">>,
      <<"s", "u", "n", ",">>,
      <<"1", "2">>,
      Ellipsis,
      <<>> }

LexInputs(max) ==
    UNION {[1..n -> {SheetTextToken(t, "none", FALSE, FALSE, 10) : t \in LexTexts}] :
             n \in 0..max}

InitLex ==
    /\ tokens \in LexInputs(MaxTokens)
    /\ events = <<>>
    /\ call = NoCall
    /\ pipe = Idle /\ twin = Idle /\ ibuf = Idle /\ obuf = Idle /\ mono = 0
    /\ chars = Idle /\ driver = Idle /\ hist = Idle

LexProcess ==
    /\ call.op = "none"
    /\ events' = process(tokens)
    /\ call' = [op |-> "process"]
    /\ UNCHANGED <<tokens, LLMUnused>>

NextLex == LexProcess

SpecLex == InitLex /\ [][NextLex]_vars

\* The lexicon entry of a text compared case-insensitively, <<>> if none
LexiconEntry(text) ==
    {e \in WORD_PHONEMES : Len(e[1]) = Len(text) /\
        \A k \in DOMAIN text : e[1][k] = lower(text[k])}

\* The phonemes the claim asks for
RECURSIVE ExpectedPhonemes(_, _)
ExpectedPhonemes(toks, i) ==
    IF i > Len(toks) THEN <<>>
    ELSE LET text == toks[i].text
             letters == SelectSeq(text, isalpha)
             own == IF LexiconEntry(text) # {}
                    THEN (CHOOSE e \in LexiconEntry(text) : TRUE)[2]
                    ELSE [k \in DOMAIN letters |-> lower(letters[k])]
         IN  own \o ExpectedPhonemes(toks, i + 1)

\* C28: a token whose text, compared case-insensitively, is a lexicon word
\* expands to exactly that word's phonemes; any other token expands to one
\* lowercased phoneme per alphabetic character of its text, in order, and
\* non-alphabetic characters contribute nothing, so a token without letters
\* expands to zero events.
C28_LexiconAndFallback ==
    call.op = "process" =>
        /\ [k \in DOMAIN events |-> events[k].phoneme] = ExpectedPhonemes(tokens, 1)
        /\ (\A i \in DOMAIN tokens : SelectSeq(tokens[i].text, isalpha) = <<>>)
              => events = <<>>
        /\ (Len(tokens) = 1 /\ tokens[1].text \in {<<"t", "h", "e">>, <<"T", "h", "e">>})
              => [k \in DOMAIN events |-> events[k].phoneme] = <<"dh", "ax">>
        /\ (Len(tokens) = 1 /\ tokens[1].text = <<"s", "u", "n", ",">>)
              => [k \in DOMAIN events |-> events[k].phoneme] = <<"s", "u", "n">>

\* 'The' expanded through the lexicon, then 'x1Y!' letter by letter.
C28_Witness ==
    /\ call.op = "process"
    /\ Len(tokens) = 2
    /\ tokens[1].text = <<"T", "h", "e">>
    /\ tokens[2].text = <<"x", "1", "Y", "!">>
    /\ [k \in DOMAIN events |-> events[k].phoneme] = <<"dh", "ax", "x", "y">>

(***************************************************************************)
(* SpecGroup: parse() applied to every chunk of up to MaxChunk keystrokes  *)
(* over a letter, the space, a comma and a tab, typed without modifiers.   *)
(***************************************************************************)
GroupAlphabet == {"a", " ", ",", "\t"}

GroupInputs(max) ==
    UNION {{Typed(text) : text \in [1..n -> GroupAlphabet]} : n \in 0..max}

InitGroup ==
    /\ chars \in GroupInputs(MaxChunk)
    /\ tokens = <<>>
    /\ call = NoCall
    /\ pipe = Idle /\ twin = Idle /\ ibuf = Idle /\ obuf = Idle /\ mono = 0
    /\ events = Idle /\ driver = Idle /\ hist = Idle

GroupParse ==
    /\ call.op = "none"
    /\ tokens' = parse(chars)
    /\ call' = [op |-> "parse"]
    /\ UNCHANGED <<chars, ParseUnused>>

NextGroup == GroupParse

SpecGroup == InitGroup /\ [][NextGroup]_vars

\* The positions of the chunk where a run of non-space keystrokes starts
RunStarts(cs) ==
    {i \in DOMAIN cs : cs[i].char # " " /\ (i = 1 \/ cs[i - 1].char = " ")}

\* The last position of the run that starts at i
RunLast(cs, i) ==
    CHOOSE e \in i..Len(cs) :
        /\ \A k \in i..e : cs[k].char # " "
        /\ e = Len(cs) \/ cs[e + 1].char = " "

TICK_POINTS(status) ==
    CASE status = "optimal" -> 10
      [] status = "underflow" -> -5
      [] status = "overflow" -> -3
      [] OTHER -> 0

GRADES == << <<"S", 90>>, <<"A", 80>>, <<"B", 70>>, <<"C", 60>>, <<"D", 50>> >>

ScoreTracker ==
    [_score |-> 0, _ticks |-> 0, _max_possible |-> 0,
     _token_matches |-> 0, _token_total |-> 0]

ScoreTracker_on_tick(st, status) ==
    [st EXCEPT !._ticks = @ + 1,
               !._max_possible = @ + TICK_POINTS("optimal"),
               !._score = @ + TICK_POINTS(status)]

\* expected is None or Some(token)
ScoreTracker_on_token(st, token, expected) ==
    IF expected = None THEN st
    ELSE LET e == (IF token.emphasis = expected[1].emphasis THEN 1 ELSE 0)
             u == (IF token.sustain = expected[1].sustain THEN 1 ELSE 0)
             h == (IF token.harmony = expected[1].harmony THEN 1 ELSE 0)
             matches == e + u + h
             bonus == 50 * e + 30 * u + 20 * h
         IN  [st EXCEPT !._token_total = @ + 1,
                        !._token_matches = IF matches = 3 THEN @ + 1 ELSE @,
                        !._score = @ + bonus]

\* Faulty variant of score(): the accumulated points as they are.
ScoreTracker_score_raw(st) == st._score

ScoreTracker_score(st) == Max(0, st._score)

\* ratio >= threshold, on ratio = _score / _max_possible
RECURSIVE GradeLoop(_, _)
GradeLoop(st, i) ==
    IF i > Len(GRADES) THEN "F"
    ELSE IF 100 * st._score >= GRADES[i][2] * st._max_possible THEN GRADES[i][1]
    ELSE GradeLoop(st, i + 1)

ScoreTracker_grade(st) ==
    IF st._max_possible <= 0 THEN "F" ELSE GradeLoop(st, 1)

\* a ratio <<num, den>>
ScoreTracker_accuracy(st) ==
    IF st._token_total = 0 THEN <<1, 1>> ELSE <<st._token_matches, st._token_total>>

ScoreTracker_reset(st) == ScoreTracker

(***************************************************************************)
(* SpecScore: one ScoreTracker, held in driver, receiving on_tick,         *)
(* on_token and reset calls and asked for its score, grade and accuracy.   *)
(* hist counts the calls and keeps the kinds of scoring calls made since   *)
(* construction or the last reset.                                         *)
(***************************************************************************)
ScoreStatuses == {"optimal", "underflow", "overflow"}

ScoreTokens ==
    { SheetTextToken(<<"a">>, e, sus, h, IF sus THEN 20 ELSE 10) :
        e \in {"none", "loud"}, sus \in BOOLEAN, h \in BOOLEAN }

ScoreExpected ==
    { None,
      Some(SheetTextToken(<<"a">>, "none", FALSE, FALSE, 10)),
      Some(SheetTextToken(<<"a">>, "loud", TRUE, FALSE, 20)) }

ScoreUnused == <<pipe, twin, ibuf, obuf, mono, chars, tokens, events>>

InitScore ==
    /\ driver = ScoreTracker
    /\ hist = [calls |-> 0, seen |-> {}]
    /\ call = NoCall
    /\ pipe = Idle /\ twin = Idle /\ ibuf = Idle /\ obuf = Idle /\ mono = 0
    /\ chars = Idle /\ tokens = Idle /\ events = Idle

ScoreOnTick(status) ==
    /\ hist.calls < MaxScoreCalls
    /\ driver' = ScoreTracker_on_tick(driver, status)
    /\ hist' = [calls |-> hist.calls + 1, seen |-> hist.seen \cup {status}]
    /\ call' = [op |-> "on_tick", status |-> status]
    /\ UNCHANGED ScoreUnused

ScoreOnToken(token, expected) ==
    /\ hist.calls < MaxScoreCalls
    /\ driver' = ScoreTracker_on_token(driver, token, expected)
    /\ hist' = [calls |-> hist.calls + 1, seen |-> hist.seen \cup {"token"}]
    /\ call' = [op |-> "on_token", token |-> token, expected |-> expected]
    /\ UNCHANGED ScoreUnused

ScoreReset ==
    /\ hist.calls < MaxScoreCalls
    /\ driver' = ScoreTracker_reset(driver)
    /\ hist' = [calls |-> hist.calls + 1, seen |-> {}]
    /\ call' = [op |-> "reset"]
    /\ UNCHANGED ScoreUnused

ScoreScore ==
    /\ call' = [op |-> "score", ret |-> ScoreTracker_score(driver)]
    /\ UNCHANGED <<driver, hist, ScoreUnused>>

ScoreGrade ==
    /\ call' = [op |-> "grade", ret |-> ScoreTracker_grade(driver)]
    /\ UNCHANGED <<driver, hist, ScoreUnused>>

ScoreAccuracy ==
    /\ call' = [op |-> "accuracy", ret |-> ScoreTracker_accuracy(driver)]
    /\ UNCHANGED <<driver, hist, ScoreUnused>>

NextScore ==
    \/ \E status \in ScoreStatuses : ScoreOnTick(status)
    \/ \E token \in ScoreTokens, expected \in ScoreExpected :
          ScoreOnToken(token, expected)
    \/ ScoreReset
    \/ ScoreScore
    \/ ScoreGrade
    \/ ScoreAccuracy

SpecScore == InitScore /\ [][NextScore]_vars

RATE_LIMIT == 100

RateLimitWindow == 60

APIKeyStore(key_ids) ==
    [RATE_LIMIT |-> RATE_LIMIT, request_log |-> [k \in key_ids |-> <<>>]]

\* Faulty variant of check_rate_limit: a refused call is logged as well.
check_rate_limit_logall(store, key_id, now) ==
    LET window_start == now - RateLimitWindow
        log == SelectSeq(store.request_log[key_id], LAMBDA t : t > window_start)
    IN  [store |-> [store EXCEPT !.request_log[key_id] = Append(log, now)],
         ret |-> Len(log) < store.RATE_LIMIT]

check_rate_limit(store, key_id, now) ==
    LET window_start == now - RateLimitWindow
        log == SelectSeq(store.request_log[key_id], LAMBDA t : t > window_start)
    IN  IF Len(log) >= store.RATE_LIMIT
        THEN [store |-> [store EXCEPT !.request_log[key_id] = log], ret |-> FALSE]
        ELSE [store |-> [store EXCEPT !.request_log[key_id] = Append(log, now)],
              ret |-> TRUE]

(***************************************************************************)
(* SpecApi: one APIKeyStore, held in driver, whose RATE_LIMIT is set to a  *)
(* small value as test_api_key_rate_limit does, asked about two key ids    *)
(* while the wall clock mono moves on.  hist is the list of the calls      *)
(* made: key id, clock reading, answer.                                    *)
(***************************************************************************)
ApiKeyIds == {"k1", "k2"}

ApiRateLimits == {1, 2}

\* seconds the clock moves on between two calls
ApiSteps == {1, RateLimitWindow - 1}

ApiUnused == <<pipe, twin, ibuf, obuf, chars, tokens, events>>

InitApi ==
    /\ driver \in {[APIKeyStore(ApiKeyIds) EXCEPT !.RATE_LIMIT = n] : n \in ApiRateLimits}
    /\ mono = 0
    /\ hist = <<>>
    /\ call = [op |-> "none", advances |-> 0]
    /\ pipe = Idle /\ twin = Idle /\ ibuf = Idle /\ obuf = Idle
    /\ chars = Idle /\ tokens = Idle /\ events = Idle

ApiCheck(key_id) ==
    /\ Len(hist) < MaxApiCalls
    /\ \E r \in {check_rate_limit(driver, key_id, mono)} :
          /\ driver' = r.store
          /\ hist' = Append(hist, [key_id |-> key_id, now |-> mono, ret |-> r.ret])
          /\ call' = [op |-> "check_rate_limit", advances |-> call.advances]
    /\ UNCHANGED <<mono, ApiUnused>>

ApiAdvance(d) ==
    /\ call.advances < MaxApiAdvances
    /\ mono' = mono + d
    /\ call' = [op |-> "advance", advances |-> call.advances + 1]
    /\ UNCHANGED <<driver, hist, ApiUnused>>

NextApi ==
    \/ \E key_id \in ApiKeyIds : ApiCheck(key_id)
    \/ \E d \in ApiSteps : ApiAdvance(d)

SpecApi == InitApi /\ [][NextApi]_vars

\* The calls among hist[i..j] for key_id that were allowed
AllowedIn(key_id, i, j) ==
    {k \in i..j : hist[k].key_id = key_id /\ hist[k].ret}

\* C31: for each key, among the check_rate_limit calls made within a time
\* span shorter than 60 seconds at most RATE_LIMIT return True; a call
\* returns False exactly when RATE_LIMIT earlier calls for its key were
\* allowed less than 60 seconds before it, whatever calls were refused in
\* between; and the log of a key holds the times of its allowed calls of the
\* last 60 seconds, never that of a refused call.
C31_RateLimit ==
    /\ \A i, j \in DOMAIN hist :
         (i <= j /\ hist[j].now - hist[i].now < RateLimitWindow) =>
            \A key_id \in ApiKeyIds :
               Cardinality(AllowedIn(key_id, i, j)) <= driver.RATE_LIMIT
    /\ \A j \in DOMAIN hist :
         LET recent == {k \in AllowedIn(hist[j].key_id, 1, j - 1) :
                           hist[j].now - hist[k].now < RateLimitWindow}
         IN  hist[j].ret <=> Cardinality(recent) < driver.RATE_LIMIT
    /\ \A key_id \in ApiKeyIds :
         LET log == driver.request_log[key_id]
         IN  /\ Len(log) <= driver.RATE_LIMIT
             /\ \A n \in DOMAIN log :
                  \E k \in AllowedIn(key_id, 1, Len(hist)) : hist[k].now = log[n]
             /\ Len(log) <= Cardinality(AllowedIn(key_id, 1, Len(hist)))

\* With RATE_LIMIT 1: a call allowed at second 0, one refused at second 59,
\* and the next one allowed at second 60, when the first has left the window.
C31_Witness ==
    /\ driver.RATE_LIMIT = 1
    /\ Len(hist) = 3
    /\ \A k \in 1..3 : hist[k].key_id = "k1"
    /\ hist[1].now = 0 /\ hist[1].ret
    /\ hist[2].now = 59 /\ ~hist[2].ret
    /\ hist[3].now = 60 /\ hist[3].ret
    /\ driver.request_log["k1"] = <<60>>

(***************************************************************************)
(* mavis/leaderboard.py.  _entries maps a song id to its list of entry     *)
(* dicts; a song without a list reads as the empty list.  The JSON file    *)
(* _save writes is a copy of _entries and is not read again by submit.     *)
(***************************************************************************)
LeaderboardEntry(player_name, score, grade, song_id, timestamp) ==
    [player_name |-> player_name, score |-> score, grade |-> grade,
     song_id |-> song_id, timestamp |-> timestamp]

Leaderboard(max_entries_per_song, song_ids) ==
    [max_entries_per_song |-> max_entries_per_song,
     entries |-> [k \in song_ids |-> <<>>]]

\* list.sort(key=score, reverse=True): a stable sort, entries of equal
\* score keep the order they had.  SortInsert puts e behind every entry
\* whose score is not below its own.
RECURSIVE SortInsert(_, _)
SortInsert(sorted, e) ==
    IF sorted = <<>> THEN <<e>>
    ELSE IF sorted[1].score >= e.score
         THEN <<sorted[1]>> \o SortInsert(Tail(sorted), e)
         ELSE <<e>> \o sorted

RECURSIVE SortByScore(_, _, _)
SortByScore(entries, i, sorted) ==
    IF i > Len(entries) THEN sorted
    ELSE SortByScore(entries, i + 1, SortInsert(sorted, entries[i]))

\* The rank loop of submit(): the first entry with the new entry's score,
\* timestamp and player name, 0 if there is none.
RECURSIVE RankLoop(_, _, _)
RankLoop(entries, new, i) ==
    IF i > Len(entries) THEN 0
    ELSE IF /\ entries[i].score = new.score
            /\ entries[i].timestamp = new.timestamp
            /\ entries[i].player_name = new.player_name
         THEN i
         ELSE RankLoop(entries, new, i + 1)

Leaderboard_submit(lb, entry) ==
    LET appended == Append(lb.entries[entry.song_id], entry)
        sorted == SortByScore(appended, 1, <<>>)
        kept == IF Len(sorted) > lb.max_entries_per_song
                THEN SubSeq(sorted, 1, lb.max_entries_per_song)
                ELSE sorted
    IN  [lb |-> [lb EXCEPT !.entries[entry.song_id] = kept],
         ret |-> RankLoop(kept, entry, 1)]

Leaderboard_get_scores(lb, song_id) == lb.entries[song_id]

(***************************************************************************)
(* SpecBoard: one Leaderboard, held in driver, receiving up to MaxSubmits  *)
(* submit calls.  hist is the list of the entries submitted.               *)
(***************************************************************************)
BoardSongs == {"twinkle", "amazing"}

\* Entries of several players and scores, among them two of the same
\* player, score and timestamp that differ in their grade.
BoardEntries ==
    { LeaderboardEntry("P", 200, "A", "twinkle", "t0"),
      LeaderboardEntry("P", 200, "B", "twinkle", "t0"),
      LeaderboardEntry("Q", 200, "A", "twinkle", "t1"),
      LeaderboardEntry("Q", 100, "C", "twinkle", "t1"),
      LeaderboardEntry("P", 300, "S", "twinkle", "t2"),
      LeaderboardEntry("P", 200, "A", "amazing", "t0") }

BoardSizes == {1, 2}

BoardUnused == <<pipe, twin, ibuf, obuf, mono, chars, tokens, events>>

InitBoard ==
    /\ driver \in {Leaderboard(n, BoardSongs) : n \in BoardSizes}
    /\ hist = <<>>
    /\ call = NoCall
    /\ pipe = Idle /\ twin = Idle /\ ibuf = Idle /\ obuf = Idle /\ mono = 0
    /\ chars = Idle /\ tokens = Idle /\ events = Idle

BoardSubmit(entry) ==
    /\ Len(hist) < MaxSubmits
    /\ \E r \in {Leaderboard_submit(driver, entry)} :
          /\ driver' = r.lb
          /\ call' = [op |-> "submit", entry |-> entry, ret |-> r.ret]
    /\ hist' = Append(hist, entry)
    /\ UNCHANGED BoardUnused

BoardGetScores(song_id) ==
    /\ call' = [op |-> "get_scores", song_id |-> song_id,
                ret |-> Leaderboard_get_scores(driver, song_id)]
    /\ UNCHANGED <<driver, hist, BoardUnused>>

NextBoard ==
    \/ \E entry \in BoardEntries : BoardSubmit(entry)
    \/ \E song_id \in BoardSongs : BoardGetScores(song_id)

SpecBoard == InitBoard /\ [][NextBoard]_vars

\* The submissions for a song, as positions of hist
SubmittedFor(song_id) == {k \in DOMAIN hist : hist[k].song_id = song_id}

\* Each song's list is sorted by score, highest first, holds at most
\* max_entries_per_song entries, and these are highest scores submitted for
\* the song: every score submitted and not exceeded by a listed one of a
\* full list is matched, count for count, from the top.
BoardListsOk ==
    \A song_id \in BoardSongs :
        LET list == driver.entries[song_id]
            subs == SubmittedFor(song_id)
        IN  /\ \A i \in 1..(Len(list) - 1) : list[i].score >= list[i + 1].score
            /\ Len(list) <= driver.max_entries_per_song
            /\ Len(list) = Min(driver.max_entries_per_song, Cardinality(subs))
            /\ \A i \in DOMAIN list : \E k \in subs : hist[k] = list[i]
            /\ \A k \in subs :
                 Cardinality({x \in subs : hist[x].score > hist[k].score})
                   = Cardinality({i \in DOMAIN list : list[i].score > hist[k].score})
                 \/ (Len(list) = driver.max_entries_per_song
                     /\ list[Len(list)].score >= hist[k].score)

\* The 1-based position the entry takes in the list of its song, 0 when it
\* is cut off: the sort puts it behind every entry whose score is not below
\* its own.
NewPosition(lb, entry) ==
    LET ahead == {i \in DOMAIN lb.entries[entry.song_id] :
                     lb.entries[entry.song_id][i].score >= entry.score}
    IN  IF Cardinality(ahead) + 1 <= lb.max_entries_per_song
        THEN Cardinality(ahead) + 1 ELSE 0

\* C32 as stated: after any sequence of submit calls each song's list is
\* sorted by score in non-increasing order, holds at most
\* max_entries_per_song entries, these being the highest scores submitted
\* for the song, and submit returns the new entry's 1-based position in the
\* list, or 0 when the entry did not make the list.
C32_AsStated ==
    /\ []BoardListsOk
    /\ [][call'.op = "submit" =>
            /\ call'.ret = NewPosition(driver, call'.entry)
            /\ call'.ret = 0 =>
                 \A i \in DOMAIN driver'.entries[call'.entry.song_id] :
                    driver'.entries[call'.entry.song_id][i] # call'.entry]_vars

(***************************************************************************)
(* mavis/config.py and mavis/multiplayer.py: MavisConfig, Player, Room.    *)
(***************************************************************************)
\* The fields of the MavisConfig dataclass with their defaults
MavisConfigDefaults ==
    [hardware |-> "LAPTOP_CPU",
     input_buffer_capacity |-> DefaultInputCapacity,
     output_buffer_capacity |-> DefaultOutputCapacity,
     llm_backend |-> "mock",
     tts_backend |-> "mock"]

\* MavisConfig(**kwargs): the generated __init__ raises TypeError for a
\* keyword that is not a field.
MavisConfig_init(kwargs) ==
    IF DOMAIN kwargs \subseteq DOMAIN MavisConfigDefaults
    THEN [f \in DOMAIN MavisConfigDefaults |->
             IF f \in DOMAIN kwargs THEN kwargs[f] ELSE MavisConfigDefaults[f]]
    ELSE Raised("TypeError")

Player(player_id, name, pipeline, tracker) ==
    [player_id |-> player_id, name |-> name, pipeline |-> pipeline,
     tracker |-> tracker, chars_typed |-> 0, phonemes_played |-> 0, ready |-> FALSE]

\* Player.feed_char: feed, tick, score the buffer state of the tick
Player_feed_char(player, char, shift, ctrl, now) ==
    Only({ Only({ [player EXCEPT
                     !.pipeline = st.ob_pipe,
                     !.chars_typed = @ + 1,
                     !.tracker = ScoreTracker_on_tick(@, st.buf_state.status),
                     !.phonemes_played =
                         IF r.ret.last_phoneme # None THEN @ + 1 ELSE @] :
                    st \in {[ob_pipe |-> [r.pipe EXCEPT !.output_buffer =
                                 OutputBuffer_state(r.pipe.output_buffer, now).ob],
                             buf_state |->
                                 OutputBuffer_state(r.pipe.output_buffer, now).ret]} }) :
              r \in {tick(feed(player.pipeline, char,
                               [shift |-> shift, ctrl |-> ctrl, alt |-> FALSE], 0),
                          now)} })

\* players maps a player id to its Player
Room(room_id, players) ==
    [room_id |-> room_id, mode |-> "competitive", players |-> players,
     started |-> FALSE, finished |-> FALSE]

Room_is_full(room) == Cardinality(DOMAIN room.players) >= 2

Room_player_count(room) == Cardinality(DOMAIN room.players)

\* Room.add_player; player_id is the uuid4 prefix drawn by the call.  The
\* result is the room and either the new Player or the exception raised.
Room_add_player(room, player_id, name, difficulty, voice) ==
    IF Room_is_full(room)
    THEN [room |-> room, ret |-> Raised("ValueError")]
    ELSE LET config == MavisConfig_init([hardware |-> "LAPTOP_CPU",
                                         llm_backend |-> "mock",
                                         tts_backend |-> "mock",
                                         difficulty_name |-> difficulty,
                                         voice_name |-> voice])
         IN  IF IsRaised(config)
             THEN [room |-> room, ret |-> config]
             ELSE LET player == Player(player_id, name,
                                   MavisPipeline(config.input_buffer_capacity,
                                                 config.output_buffer_capacity),
                                   ScoreTracker)
                  IN  [room |-> [room EXCEPT !.players =
                                    [k \in DOMAIN room.players \cup {player_id} |->
                                        IF k = player_id THEN player
                                        ELSE room.players[k]]],
                       ret |-> player]

Room_remove_player(room, player_id) ==
    IF player_id \in DOMAIN room.players
    THEN [room |-> [room EXCEPT !.players =
                       [k \in DOMAIN room.players \ {player_id} |-> room.players[k]]],
          ret |-> Some(room.players[player_id].name)]
    ELSE [room |-> room, ret |-> None]

(***************************************************************************)
(* SpecRoom: one Room, held in driver, constructed with no, one or two     *)
(* players, then receiving add_player, remove_player and its players'      *)
(* feed_char calls.  The clocks stand still.                               *)
(***************************************************************************)
RoomPlayerIds == {"id1", "id2"}

RoomNames == {"Alice", "Bob"}

\* the players dicts a Room is constructed with
RoomPlayers ==
    UNION {[ids -> {Player("", n, create_pipeline, ScoreTracker) : n \in RoomNames}] :
             ids \in SUBSET RoomPlayerIds}

RoomUnused == <<pipe, twin, ibuf, obuf, mono, chars, tokens, events, hist>>

InitRoom ==
    /\ driver \in {Room("r1", [k \in DOMAIN ps |-> [ps[k] EXCEPT !.player_id = k]]) :
                     ps \in RoomPlayers}
    /\ mono = 0
    /\ call = NoCall
    /\ pipe = Idle /\ twin = Idle /\ ibuf = Idle /\ obuf = Idle
    /\ chars = Idle /\ tokens = Idle /\ events = Idle /\ hist = Idle

RoomAddPlayer(player_id, name) ==
    /\ \E r \in {Room_add_player(driver, player_id, name, "medium", "default")} :
          /\ driver' = r.room
          /\ call' = [op |-> "add_player", name |-> name,
                      raised |-> IF IsRaised(r.ret) THEN r.ret.raised ELSE "",
                      ret |-> r.ret]
    /\ UNCHANGED RoomUnused

RoomRemovePlayer(player_id) ==
    /\ \E r \in {Room_remove_player(driver, player_id)} :
          /\ driver' = r.room
          /\ call' = [op |-> "remove_player", player_id |-> player_id, ret |-> r.ret]
    /\ UNCHANGED RoomUnused

RoomFeedChar(player_id, char) ==
    /\ player_id \in DOMAIN driver.players
    /\ driver.players[player_id].chars_typed < MaxFeeds
    /\ driver' = [driver EXCEPT !.players[player_id] =
                     Player_feed_char(@, char, FALSE, FALSE, mono)]
    /\ call' = [op |-> "feed_char", player_id |-> player_id, char |-> char]
    /\ UNCHANGED RoomUnused

NextRoom ==
    \/ \E player_id \in {"id3"}, name \in {"Charlie"} : RoomAddPlayer(player_id, name)
    \/ \E player_id \in RoomPlayerIds : RoomRemovePlayer(player_id)
    \/ \E player_id \in RoomPlayerIds, char \in {"a", " "} : RoomFeedChar(player_id, char)

SpecRoom == InitRoom /\ [][NextRoom]_vars

\* C33 as stated: add_player on a room with fewer than two players
\* succeeds, gives the new player a fresh pipeline and score tracker of its
\* own and increases player_count by one; add_player on a room that has two
\* players raises ValueError and leaves the player set unchanged.
C33_AsStated ==
    [][call'.op = "add_player" =>
        IF Room_player_count(driver) < 2
        THEN /\ call'.raised = ""
             /\ Room_player_count(driver') = Room_player_count(driver) + 1
             /\ \E k \in DOMAIN driver'.players \ DOMAIN driver.players :
                   /\ driver'.players[k].name = call'.name
                   /\ driver'.players[k].pipeline = create_pipeline
                   /\ driver'.players[k].tracker = ScoreTracker
             /\ \A k \in DOMAIN driver.players :
                   k \in DOMAIN driver'.players /\ driver'.players[k] = driver.players[k]
        ELSE /\ call'.raised = "ValueError"
             /\ driver'.players = driver.players]_vars

(***************************************************************************)
(* SpecChunk: a default pipeline fed up to MaxFeeds texts by feed_text and *)
(* ticked while keystrokes are queued.  The texts are longer than a chunk  *)
(* and carry a word, wrapping underscores, brackets, an ellipsis or a run  *)
(* of loud words across the 8-keystroke boundary.  hist counts the feeds   *)
(* and lists, tick after tick, the chunk drained and the tokens made.      *)
(***************************************************************************)
\* "abcdefghij", "abcde _xy_", "abcde [xy]", "abcdef...", "AAAAAAA B"
ChunkTexts ==
    { <<"a", "b", "c", "d", "e", "f", "g", "h", "i", "j">>,
      <<"a", "b", "c", "d", "e", " ", "_", "x", "y", "_">>,
      <<"a", "b", "c", "d", "e", " ", "[", "x", "y", "]">>,
      <<"a", "b", "c", "d", "e", "f", ".", ".", ".">>,
      <<"A", "A", "A", "A", "A", "A", "A", " ", "B">> }

ChunkUnused == <<twin, ibuf, obuf, mono, chars, tokens, events, driver>>

InitChunk ==
    /\ pipe = create_pipeline
    /\ hist = [feeds |-> 0, ticks |-> <<>>]
    /\ mono = 0
    /\ call = NoCall
    /\ twin = Idle /\ ibuf = Idle /\ obuf = Idle
    /\ chars = Idle /\ tokens = Idle /\ events = Idle /\ driver = Idle

ChunkFeedText(text) ==
    /\ hist.feeds < MaxFeeds
    /\ pipe' = feed_text(pipe, text, [i \in DOMAIN text |-> 0])
    /\ hist' = [hist EXCEPT !.feeds = @ + 1]
    /\ call' = [op |-> "feed_text", text |-> text]
    /\ UNCHANGED ChunkUnused

ChunkTick ==
    /\ pipe.input_buffer.buffer # <<>>
    /\ \E r \in {tick(pipe, mono)} :
           /\ pipe' = r.pipe
           /\ hist' = [hist EXCEPT !.ticks =
                          Append(@, [chars |-> r.chars, tokens |-> r.tokens])]
           /\ call' = [op |-> "tick"]
    /\ UNCHANGED ChunkUnused

NextChunk ==
    \/ \E text \in ChunkTexts : ChunkFeedText(text)
    \/ ChunkTick

SpecChunk == InitChunk /\ [][NextChunk]_vars

\* A run of non-space keystrokes ends chunk k and goes on in chunk k + 1
Straddles(k) ==
    /\ k \in DOMAIN hist.ticks /\ k + 1 \in DOMAIN hist.ticks
    /\ hist.ticks[k].chars[Len(hist.ticks[k].chars)].char # " "
    /\ hist.ticks[k + 1].chars[1].char # " "

LastOf(seq) == seq[Len(seq)]

\* C34: the tokens of a tick depend only on the at most 8 keystrokes it
\* drained: they are the parse of that chunk, the same chunk gives the same
\* tokens whatever was ticked before, and a lone loud token stays 'loud'
\* whatever the neighbouring ticks hold.  A run of non-space keystrokes that
\* straddles two chunks gives a token in each tick, one token more than the
\* two chunks parsed as one; underscores or brackets opened in one chunk and
\* closed in the next stay in the texts and set no 'soft' and no harmony,
\* and dots split so that neither part ends in '...' set no sustain.
C34_NoStateAcrossTicks ==
    /\ \A k \in DOMAIN hist.ticks :
         /\ Len(hist.ticks[k].chars) <= 8
         /\ hist.ticks[k].tokens = parse(hist.ticks[k].chars)
         /\ \A j \in DOMAIN hist.ticks :
              hist.ticks[j].chars = hist.ticks[k].chars =>
                 hist.ticks[j].tokens = hist.ticks[k].tokens
         /\ \A i \in DOMAIN hist.ticks[k].tokens :
              (\A n \in DOMAIN hist.ticks[k].tokens \ {i} :
                   hist.ticks[k].tokens[n].emphasis \notin {"loud", "shout"})
                => hist.ticks[k].tokens[i].emphasis # "shout"
    /\ \A k \in DOMAIN hist.ticks :
         Straddles(k) =>
            \A a \in {hist.ticks[k]}, b \in {hist.ticks[k + 1]} :
            \A g1 \in {Chars(LastOf(parse_groups(a.chars)))},
               g2 \in {Chars(parse_groups(b.chars)[1])} :
               /\ a.tokens # <<>> /\ b.tokens # <<>>
               /\ Len(a.tokens) + Len(b.tokens) = Len(parse(a.chars \o b.chars)) + 1
               /\ (g1[1] = "_" /\ LastOf(g1) # "_" /\ g2[1] # "_") =>
                     /\ LastOf(a.tokens).emphasis # "soft"
                     /\ b.tokens[1].emphasis # "soft"
                     /\ LastOf(a.tokens).text[1] = "_"
               /\ (g1[1] = "[" /\ LastOf(g1) # "]" /\ g2[1] # "[") =>
                     /\ ~LastOf(a.tokens).harmony /\ ~b.tokens[1].harmony
                     /\ LastOf(a.tokens).text[1] = "["
               /\ (~EndsWithDots(g1) /\ ~EndsWithDots(g2)) =>
                     ~LastOf(a.tokens).sustain /\ ~b.tokens[1].sustain

\* "abcde _xy_" ticked twice: 'abcde' and '_x' from the first chunk, 'y_'
\* from the second, none of them soft; parsed as one chunk the text holds a
\* soft 'xy'.
C34_Witness ==
    /\ Len(hist.ticks) = 2
    /\ Straddles(1)
    /\ Chars(hist.ticks[1].chars) = <<"a", "b", "c", "d", "e", " ", "_", "x">>
    /\ Len(hist.ticks[1].tokens) = 2
    /\ hist.ticks[1].tokens[2].text = <<"_", "x">>
    /\ hist.ticks[2].tokens[1].text = <<"y", "_">>
    /\ \A k \in 1..2 : \A i \in DOMAIN hist.ticks[k].tokens :
          hist.ticks[k].tokens[i].emphasis = "none"
    /\ parse(hist.ticks[1].chars \o hist.ticks[2].chars)[2].emphasis = "soft"

(***************************************************************************)
(* SpecPoll: one OutputBuffer polled by state() while the clock runs.      *)
(* hist remembers the previous snapshot: when it was taken, its rates, the *)
(* timestamp lists it left behind, and whether push or pop was called      *)
(* since.  Each state() step hands that record on in call.prev.            *)
(***************************************************************************)
InitPoll ==
    /\ obuf = OutputBuffer(MaxLog)
    /\ mono = 0
    /\ call = NoCall
    /\ hist = None
    /\ pipe = Idle /\ twin = Idle /\ ibuf = Idle
    /\ chars = Idle /\ tokens = Idle /\ events = Idle /\ driver = Idle

PollUnused == <<pipe, twin, ibuf, chars, tokens, events, driver>>

PollPush(evs) ==
    /\ Len(obuf.push_times) < MaxLog
    /\ obuf' = OutputBuffer_push(obuf, evs, mono)
    /\ call' = [op |-> "push", events |-> evs]
    /\ hist' = IF hist = None THEN None
               ELSE Some([hist[1] EXCEPT !.pushed = TRUE])
    /\ UNCHANGED <<mono, PollUnused>>

PollPop ==
    /\ Len(obuf.pop_times) < MaxLog
    /\ \E r \in {OutputBuffer_pop(obuf, mono)} :
           /\ obuf' = r.ob
           /\ call' = [op |-> "pop", ret |-> r.ret]
    /\ hist' = IF hist = None THEN None
               ELSE Some([hist[1] EXCEPT !.popped = TRUE])
    /\ UNCHANGED <<mono, PollUnused>>

PollState ==
    /\ \E r \in {OutputBuffer_state(obuf, mono)} :
           /\ obuf' = r.ob
           /\ call' = [op |-> "state", ret |-> r.ret, now |-> mono, prev |-> hist]
           /\ hist' = Some([now |-> mono,
                            fill_rate |-> r.ret.fill_rate,
                            drain_rate |-> r.ret.drain_rate,
                            push_times |-> r.ob.push_times,
                            pop_times |-> r.ob.pop_times,
                            pushed |-> FALSE, popped |-> FALSE])
    /\ UNCHANGED <<mono, PollUnused>>

PollAdvance ==
    /\ mono < MaxClock
    /\ mono' = mono + 1
    /\ call' = [op |-> "advance"]
    /\ UNCHANGED <<obuf, hist, PollUnused>>

NextPoll ==
    \/ \E evs \in RateArgs : PollPush(evs)
    \/ PollPop
    \/ PollState
    \/ PollAdvance

SpecPoll == InitPoll /\ [][NextPoll]_vars

\* r1 <= r2 for rates <<count, seconds>> with positive seconds
RateLeq(r1, r2) == r1[1] * r2[2] <= r2[1] * r1[2]

\* A snapshot that follows an earlier one at a later time
Polled == call.op = "state" /\ call.prev # None /\ call.prev[1].now < call.now

\* C35 as stated: from one snapshot to a later one with no push in between
\* the fill rate never increases, and with no pop in between the drain rate
\* never increases.
C35_AsStated ==
    Polled =>
        /\ ~call.prev[1].pushed =>
               RateLeq(call.ret.fill_rate, call.prev[1].fill_rate)
        /\ ~call.prev[1].popped =>
               RateLeq(call.ret.drain_rate, call.prev[1].drain_rate)

\* What a later snapshot reports for a timestamp list left by the earlier
\* one and not added to since
DecaysFrom(times, before, rate, was, now) ==
    /\ rate[1] <= was[1]
    /\ rate[2] >= 1
    /\ (times = <<>> \/ now - times[Len(times)] > RateWindow) => rate[1] = 0
    /\ (times # <<>> /\ now - times[1] <= RateWindow) =>
           /\ rate = <<Len(times), now - times[1]>>
           /\ before > times[1] => RateLeq(rate, was)

\* C35 From one snapshot to a later one with no push in between, the number
\* of push timestamps counted never increases and is 0 once the newest is
\* more than the 2.0 s window old; while the oldest timestamp of the earlier
\* snapshot is still in the window the fill rate is that same count over the
\* grown span, hence no higher if the earlier snapshot was taken after that
\* timestamp.  When the oldest timestamp leaves the window the rate may rise.
\* Likewise the drain rate when no pop occurs in between.
C35_Decay ==
    Polled =>
        /\ ~call.prev[1].pushed =>
               DecaysFrom(call.prev[1].push_times, call.prev[1].now,
                          call.ret.fill_rate, call.prev[1].fill_rate, call.now)
        /\ ~call.prev[1].popped =>
               DecaysFrom(call.prev[1].pop_times, call.prev[1].now,
                          call.ret.drain_rate, call.prev[1].drain_rate, call.now)

\* Pushes at 0, 2 and 2 s: 3 / 2 per second at 2 s, then 2 / 1 at 3 s
C35_Witness ==
    /\ Polled
    /\ ~call.prev[1].pushed
    /\ call.prev[1].push_times = <<0, 2, 2>>
    /\ call.prev[1].fill_rate = <<3, 2>>
    /\ call.ret.fill_rate = <<2, 1>>

(***************************************************************************)
(* The state a tick reports, under Spec.                                   *)
(***************************************************************************)
\* The texts of a token list, in order
Texts(toks) == [i \in DOMAIN toks |-> toks[i].text]

\* The output queue as the pop of a tick finds it: the events queued before
\* the tick, then those of its events that fit the capacity
QueueAtPop(ob, evs) ==
    SubSeq(ob.buffer \o evs, 1,
           Max(Len(ob.buffer), Min(ob.capacity, Len(ob.buffer) + Len(evs))))

\* C36: the state dict a tick() returns has as last_phoneme the symbol of
\* the event that tick popped, the head of the output queue at its pop, and
\* null exactly when the queue was empty then, whatever an earlier tick
\* popped; its last_tokens are the texts, in order, of the tokens of this
\* tick if it produced any, and otherwise the last_tokens of before the tick.
C36_ReportedState ==
    [][call'.op = "tick" =>
        \A q \in {QueueAtPop(pipe.output_buffer, call'.events)} :
            /\ (call'.ret.last_phoneme = None) <=> (q = <<>>)
            /\ q # <<>> => /\ call'.popped = Some(q[1])
                           /\ call'.ret.last_phoneme = Some(q[1].phoneme)
                           /\ pipe'.last_phoneme = Some(q[1])
            /\ q = <<>> => pipe'.last_phoneme = None
            /\ call'.tokens # <<>> =>
                   /\ call'.ret.last_tokens = Texts(call'.tokens)
                   /\ pipe'.last_tokens = call'.tokens
            /\ call'.tokens = <<>> =>
                   /\ call'.ret.last_tokens = Texts(pipe.last_tokens)
                   /\ pipe'.last_tokens = pipe.last_tokens]_vars

\* A tick that found no keystrokes and popped a phoneme queued by an earlier
\* tick: it reports that phoneme and the texts of the earlier tick.
C36_Witness ==
    /\ call.op = "tick"
    /\ call.chars = <<>> /\ call.tokens = <<>>
    /\ call.popped # None
    /\ call.ret.last_phoneme = Some(call.popped[1].phoneme)
    /\ call.ret.last_tokens # <<>>
    /\ call.ret.last_tokens = Texts(pipe.last_tokens)

(***************************************************************************)
(* SpecDrain: a pipeline fed at most MaxDrainFeeds times, by feed or by    *)
(* feed_text, with a caller that keeps calling tick(): a tick that would   *)
(* change the state is not put off forever.  The text "a a a a a" is       *)
(* longer than a chunk and expands to more phonemes than the smaller       *)
(* output queue holds.  hist counts the feeds.                             *)
(***************************************************************************)
MaxDrainFeeds == 2

DrainKeys == { <<"a", <<>>>>, <<" ", <<>>>> }

DrainTexts == { <<"a", " ", "a", " ", "a", " ", "a", " ", "a">> }

InitDrain ==
    /\ pipe \in {MavisPipeline(ChunkSize + 2, oc) : oc \in PipeOutCaps}
    /\ mono = 0
    /\ hist = 0
    /\ call = NoCall
    /\ twin = Idle /\ ibuf = Idle /\ obuf = Idle
    /\ chars = Idle /\ tokens = Idle /\ events = Idle /\ driver = Idle

DrainFeed(c, mods) ==
    /\ hist < MaxDrainFeeds
    /\ pipe' = feed(pipe, c, mods, 0)
    /\ hist' = hist + 1
    /\ call' = [op |-> "feed", char |-> c, mods |-> mods]
    /\ UNCHANGED <<mono, PipeUnused>>

DrainFeedText(text) ==
    /\ hist < MaxDrainFeeds
    /\ pipe' = feed_text(pipe, text, [i \in DOMAIN text |-> 0])
    /\ hist' = hist + 1
    /\ call' = [op |-> "feed_text", text |-> text]
    /\ UNCHANGED <<mono, PipeUnused>>

NextDrain ==
    \/ \E k \in DrainKeys : DrainFeed(k[1], k[2])
    \/ \E text \in DrainTexts : DrainFeedText(text)
    \/ Tick

SpecDrain == InitDrain /\ [][NextDrain]_vars /\ WF_vars(Tick)

QueuesEmpty ==
    pipe.input_buffer.buffer = <<>> /\ pipe.output_buffer.buffer = <<>>

\* The state dict of a tick on a drained pipeline
ReportsDrained(ret) ==
    /\ ret.input_buffer_size = 0
    /\ ret.output_buffer_size = 0
    /\ ret.output_buffer_status = "underflow"
    /\ ret.last_phoneme = None

\* C37: once the feeds have stopped, repeated tick() calls reach a state
\* with the input and the output queue both empty and stay there; every
\* tick taken from such a state leaves both queues empty and reports input
\* size 0, output size 0, zone 'underflow' and a null last phoneme.
C37_DrainLiveness ==
    /\ <>[](QueuesEmpty /\ (call.op = "tick" => ReportsDrained(call.ret)))
    /\ [][(QueuesEmpty /\ call'.op = "tick") =>
              (QueuesEmpty' /\ ReportsDrained(call'.ret))]_vars

\* All MaxDrainFeeds feeds made, several phonemes played, both queues
\* drained and the last tick reporting it
C37_Witness ==
    /\ hist = MaxDrainFeeds
    /\ QueuesEmpty
    /\ call.op = "tick"
    /\ ReportsDrained(call.ret)
    /\ Len(pipe.output_buffer.pop_times) >= 2
    /\ Len(pipe.output_buffer.push_times) >= 2

(***************************************************************************)
(* The timestamp lists under push, pop and clear, under SpecOut.           *)
(***************************************************************************)
\* n copies of the time t
Stamps(n, t) == [i \in 1..n |-> t]

\* C38: push appends one timestamp, the time of the call, for each event it
\* enqueues and none for an event it discards at capacity, so the push
\* timestamps grow by the number of accepted events; pop appends one
\* timestamp when it returns an event and none on an empty queue.  A push
\* that enqueues nothing and a pop on an empty queue leave both lists, and
\* with them the fill and drain rate state() reports, as they were.
C38_EffectiveOpsTimestamped ==
    [][/\ call'.op = "push" =>
            \A k \in {Len(obuf'.buffer) - Len(obuf.buffer)} :
               /\ k = Min(Len(call'.events), obuf.capacity - Len(obuf.buffer))
               /\ obuf'.push_times = obuf.push_times \o Stamps(k, mono)
               /\ obuf'.pop_times = obuf.pop_times
               /\ k = 0 =>
                    /\ OutputBuffer_state(obuf', mono).ret.fill_rate
                         = OutputBuffer_state(obuf, mono).ret.fill_rate
                    /\ OutputBuffer_state(obuf', mono).ret.drain_rate
                         = OutputBuffer_state(obuf, mono).ret.drain_rate
       /\ call'.op = "pop" =>
            /\ obuf'.push_times = obuf.push_times
            /\ call'.ret # None <=> obuf.buffer # <<>>
            /\ call'.ret # None => obuf'.pop_times = Append(obuf.pop_times, mono)
            /\ call'.ret = None =>
                 /\ obuf'.pop_times = obuf.pop_times
                 /\ OutputBuffer_state(obuf', mono).ret.drain_rate
                      = OutputBuffer_state(obuf, mono).ret.drain_rate
                 /\ OutputBuffer_state(obuf', mono).ret.fill_rate
                      = OutputBuffer_state(obuf, mono).ret.fill_rate]_vars

\* A push of several events of which the full queue took fewer than were
\* offered: there are fewer push timestamps than events in this one call.
C38_Witness ==
    /\ call.op = "push"
    /\ Len(obuf.buffer) = obuf.capacity
    /\ obuf.push_times # <<>>
    /\ Len(obuf.push_times) < Len(call.events)
    /\ obuf.pop_times = <<>>

\* C39: clear() empties the queue and leaves capacity, push timestamps and
\* pop timestamps as they were; the state() called right after it reports
\* level 0.0 and 'underflow', and the fill and drain rate that state() would
\* have reported on the buffer as it was before the clear.
C39_ClearKeepsHistory ==
    [][/\ call'.op = "clear" =>
            /\ obuf'.buffer = <<>>
            /\ obuf'.capacity = obuf.capacity
            /\ obuf'.push_times = obuf.push_times
            /\ obuf'.pop_times = obuf.pop_times
       /\ (call.op = "clear" /\ call'.op = "state") =>
            \A without \in {OutputBuffer_state(call.before, mono).ret} :
               /\ call'.ret.level = <<0, obuf.capacity>>
               /\ call'.ret.status = "underflow"
               /\ call'.ret.fill_rate = without.fill_rate
               /\ call'.ret.drain_rate = without.drain_rate]_vars

\* A clear() of a queue that held events, after pushes and a pop: the
\* queue is empty, both timestamp lists are not.
C39_Witness ==
    /\ call.op = "clear"
    /\ Len(call.before.buffer) >= 2
    /\ obuf.buffer = <<>>
    /\ Len(obuf.push_times) >= 3
    /\ obuf.pop_times # <<>>
    /\ obuf.push_times = call.before.push_times

====
